---------------------------- MODULE Spec2Model ----------------------------
(***************************************************************************)
(* A model of the analyst-agent portfolio monitor: position valuation,     *)
(* drift alerts with cooldown and bounded retention (drift-alerts.js),     *)
(* the rebalance planner, the Monte Carlo projection and the polling       *)
(* daemon.                                                                 *)
(*                                                                         *)
(* Numbers.  JavaScript numbers are modelled as exact rationals            *)
(* [n |-> numerator, d |-> denominator] in lowest terms with d > 0;        *)
(* prices, quantities and position values are integers.  The clock is in   *)
(* minutes: Date.now() has millisecond resolution, and several handlers    *)
(* may run at one clock value.                                             *)
(***************************************************************************)
EXTENDS Integers, Sequences, FiniteSets, TLC

(***************************************************************************)
(* Bounds of the model.                                                    *)
(***************************************************************************)
MaxTicks == 2
MaxChecks == 2
MaxAcks == 1
MaxInFlight == 2
MaxHours == 2
MaxPolls == 52
MaxHistoryChecks == 3
MaxCooldownChecks == 3
MaxMnavHours == 1
MaxSnapshotDays == 366

(***************************************************************************)
(* Program constants.                                                      *)
(***************************************************************************)
MaxAlerts == 100
RetentionDays == 30
DefaultCooldown == 240
CheckIntervalMinutes == 60
MinutesPerDay == 24 * 60
MaxSnapshots == 365

\* JavaScript null (a price that could not be fetched, an absent field).
null == 0 - 1
\* The falsy `error` of a successful result.
NoError == ""

Symbols == {"BTC", "MSTR", "STRD"}

(***************************************************************************)
(* Exact rational arithmetic.                                              *)
(***************************************************************************)
Abs(x) == IF x < 0 THEN 0 - x ELSE x

RECURSIVE GCD(_, _)
GCD(a, b) == IF b = 0 THEN a ELSE GCD(b, a % b)

Frac(n, d) ==
  LET s == IF d < 0 THEN 0 - 1 ELSE 1
      g == GCD(Abs(n), Abs(d))
  IN  [n |-> (s * n) \div g, d |-> (s * d) \div g]

RInt(i) == [n |-> i, d |-> 1]
RZero == RInt(0)
RAdd(a, b) == Frac(a.n * b.d + b.n * a.d, a.d * b.d)
RSub(a, b) == Frac(a.n * b.d - b.n * a.d, a.d * b.d)
RMul(a, b) ==
  LET x == Frac(a.n, b.d)
      y == Frac(b.n, a.d)
  IN  Frac(x.n * y.n, x.d * y.d)
RDiv(a, b) == RMul(a, Frac(b.d, b.n))
RAbs(a) == [n |-> Abs(a.n), d |-> a.d]
RLt(a, b) == a.n * b.d < b.n * a.d
RLe(a, b) == a.n * b.d <= b.n * a.d
RGt(a, b) == RLt(b, a)
RGe(a, b) == RLe(b, a)

(***************************************************************************)
(* Sequence helpers.                                                       *)
(***************************************************************************)
\* Array.prototype.slice(-k): the last k elements.
SliceLast(s, k) ==
  IF Len(s) <= k THEN s ELSE SubSeq(s, Len(s) - k + 1, Len(s))

\* Array.prototype.map.
Map(s, F(_)) == [i \in 1..Len(s) |-> F(s[i])]

\* Array.prototype.find / findIndex: the first index whose element passes,
\* 0 when none does.
FindIndex(s, Test(_)) ==
  IF \E i \in 1..Len(s) : Test(s[i])
    THEN CHOOSE i \in 1..Len(s) :
           Test(s[i]) /\ \A j \in 1..(i - 1) : ~Test(s[j])
    ELSE 0

\* The sum of a sequence of integers, added up by halves: integer addition
\* is associative, and the halving keeps the evaluation shallow on long
\* sequences.
RECURSIVE SumInts(_)
SumInts(s) ==
  IF Len(s) = 0 THEN 0
  ELSE IF Len(s) = 1 THEN s[1]
  ELSE LET half == Len(s) \div 2
       IN  SumInts(SubSeq(s, 1, half)) + SumInts(SubSeq(s, half + 1, Len(s)))


(***************************************************************************)
(* config.json and its loader.  A JavaScript object is a function from its *)
(* keys; {...a, ...b} keeps every key of either, b's value winning.        *)
(***************************************************************************)
Spread(a, b) ==
  [k \in (DOMAIN a) \cup (DOMAIN b) |-> IF k \in DOMAIN b THEN b[k] ELSE a[k]]

DEFAULT_CONFIG ==
  [portfolio  |-> [holdings |-> <<>>],
   mstrData   |-> [btcHoldings |-> 450000, sharesOutstanding |-> 180000000],
   thresholds |-> [mnavHigh |-> Frac(25, 10), mnavLow |-> Frac(85, 100),
                   driftTrigger |-> Frac(5, 100),
                   rebalanceTrigger |-> Frac(10, 100)]]

\* loadConfig: the file's top-level keys over the defaults' (a missing or
\* unreadable config.json is the file with no keys).
loadConfig(file) == Spread(DEFAULT_CONFIG, file)
getHoldings(config) == config.portfolio.holdings
getThresholds(config) == config.thresholds
getMstrData(config) == config.mstrData

(***************************************************************************)
(* Position Valuator (calculatePortfolio of portfolio.js).                 *)
(***************************************************************************)
PriceOf(prices, symbol) == IF symbol \in DOMAIN prices THEN prices[symbol] ELSE null

PositionValue(price, quantity) == IF price = null THEN 0 ELSE price * quantity

ValuePosition(h, prices) ==
  [symbol |-> h.symbol, quantity |-> h.quantity,
   price |-> PriceOf(prices, h.symbol),
   value |-> PositionValue(PriceOf(prices, h.symbol), h.quantity),
   targetAllocation |-> h.targetAllocation]

\* Mutant of ActualAllocation: a percentage.
ActualAllocationPercent(value, totalValue) ==
  IF totalValue > 0 THEN Frac(100 * value, totalValue) ELSE RZero

ActualAllocation(value, totalValue) ==
  IF totalValue > 0 THEN Frac(value, totalValue) ELSE RZero

NeedsRebalance(drift, rebalanceTrigger) == RGt(RAbs(drift), rebalanceTrigger)

WithDrift(v, totalValue, rebalanceTrigger) ==
  LET actual == ActualAllocation(v.value, totalValue)
      drift  == RSub(actual, v.targetAllocation)
  IN  [symbol |-> v.symbol, quantity |-> v.quantity, price |-> v.price,
       value |-> v.value, targetAllocation |-> v.targetAllocation,
       actualAllocation |-> actual, drift |-> drift,
       needsRebalance |-> NeedsRebalance(drift, rebalanceTrigger)]

PricesUnavailable(prices) == prices["BTC"] = null \/ prices["MSTR"] = null

calculatePortfolio(config, prices, time) ==
  IF PricesUnavailable(prices)
    THEN [error |-> "Failed to fetch prices"]
    ELSE LET valued == Map(getHoldings(config), LAMBDA h : ValuePosition(h, prices))
             total  == SumInts(Map(valued, LAMBDA v : v.value))
             trig   == getThresholds(config).rebalanceTrigger
         IN  [error |-> NoError,
              positions |-> Map(valued, LAMBDA v : WithDrift(v, total, trig)),
              totalValue |-> total,
              timestamp |-> time]

(***************************************************************************)
(* Drift alerts (drift-alerts.js).                                         *)
(***************************************************************************)
AlertSeverity == [INFO |-> "info", WARNING |-> "warning", CRITICAL |-> "critical"]
NoSeverity == "none"

defaultConfig ==
  [thresholds |-> [warning |-> Frac(5, 100), critical |-> Frac(10, 100)],
   checkInterval |-> 60,
   cooldown |-> DefaultCooldown]

\* loadAlertConfig: alert-config.json's top-level keys over the defaults'.
loadAlertConfig(file) == Spread(defaultConfig, file)

\* Mutant of Classify: > for >=.
ClassifyStrict(drift, thresholds) ==
  LET absDrift == RAbs(drift)
  IN  IF RGt(absDrift, thresholds.critical) THEN AlertSeverity.CRITICAL
      ELSE IF RGt(absDrift, thresholds.warning) THEN AlertSeverity.WARNING
      ELSE NoSeverity

\* Lines 139-146: the severity of one position, NoSeverity for `null`.
Classify(drift, thresholds) ==
  LET absDrift == RAbs(drift)
  IN  IF RGe(absDrift, thresholds.critical) THEN AlertSeverity.CRITICAL
      ELSE IF RGe(absDrift, thresholds.warning) THEN AlertSeverity.WARNING
      ELSE NoSeverity

\* Mutant of WithinCooldown: the cooldown taken for seconds
\* (config.cooldown * 1000).
WithinCooldownSeconds(a, time, config) ==
  (time - a.timestamp) * 60 < config.cooldown

\* Line 153: (now - new Date(a.timestamp)) < config.cooldown * 60 * 1000,
\* both sides in minutes.
WithinCooldown(a, time, config) == (time - a.timestamp) < config.cooldown

\* Mutant of CoolingDown: any recent alert of the symbol suppresses.
CoolingDownAnySeverity(existingAlerts, symbol, severity, time, config) ==
  \E i \in 1..Len(existingAlerts) :
    /\ existingAlerts[i].symbol = symbol
    /\ WithinCooldown(existingAlerts[i], time, config)

\* Lines 150-154: an existing alert that suppresses a new one.
CoolingDown(existingAlerts, symbol, severity, time, config) ==
  \E i \in 1..Len(existingAlerts) :
    /\ existingAlerts[i].symbol = symbol
    /\ existingAlerts[i].severity = severity
    /\ WithinCooldown(existingAlerts[i], time, config)

\* Lines 157-168.
NewAlert(position, severity, time) ==
  [id |-> <<position.symbol, time>>,
   symbol |-> position.symbol,
   severity |-> severity,
   drift |-> position.drift,
   actualAllocation |-> position.actualAllocation,
   targetAllocation |-> position.targetAllocation,
   value |-> position.value,
   timestamp |-> time,
   acknowledged |-> FALSE,
   acknowledgedAt |-> null]

\* Lines 138-173: the alerts one check emits, in position order: one for
\* each position that has a severity and is not cooling down.
EmitAlerts(positions, existingAlerts, time, config) ==
  LET Severity(position) == Classify(position.drift, config.thresholds)
      alerting ==
        SelectSeq(positions, LAMBDA position :
          /\ Severity(position) # NoSeverity
          /\ ~CoolingDown(existingAlerts, position.symbol, Severity(position),
                          time, config))
  IN  [k \in 1..Len(alerting) |->
         NewAlert(alerting[k], Severity(alerting[k]), time)]

\* Mutant of SaveNewAlerts: slice(0, 100), which keeps the oldest.
SaveNewAlertsOldest(existingAlerts, alerts, stored) ==
  IF Len(alerts) > 0
    THEN SubSeq(existingAlerts \o alerts, 1,
                IF Len(existingAlerts \o alerts) < MaxAlerts
                  THEN Len(existingAlerts \o alerts) ELSE MaxAlerts)
    ELSE stored

\* Lines 176-180: what the check leaves in the alert log.
SaveNewAlerts(existingAlerts, alerts, stored) ==
  IF Len(alerts) > 0
    THEN SliceLast(existingAlerts \o alerts, MaxAlerts)
    ELSE stored

\* Lines 99-108.
DriftSnapshot(positions, time) ==
  [timestamp |-> time,
   positions |-> Map(positions, LAMBDA p :
                   [symbol |-> p.symbol,
                    actualAllocation |-> p.actualAllocation,
                    targetAllocation |-> p.targetAllocation,
                    drift |-> p.drift, value |-> p.value])]

\* Lines 96-118 with the snapshot that is exactly RetentionDays old kept.
saveDriftSnapshotInclusive(history, positions, time) ==
  LET cutoff == time - RetentionDays * MinutesPerDay
  IN  SelectSeq(Append(history, DriftSnapshot(positions, time)),
                LAMBDA h : h.timestamp >= cutoff)

\* Lines 96-118: the drift history after saveDriftSnapshot.
saveDriftSnapshot(history, positions, time) ==
  LET cutoff == time - RetentionDays * MinutesPerDay
  IN  SelectSeq(Append(history, DriftSnapshot(positions, time)),
                LAMBDA h : h.timestamp > cutoff)

\* Lines 274-277: the trend a change of drift is given.  The threshold is the
\* literal 0.01 of line 275.
TrendEpsilon == Frac(1, 100)

TrendOfInclusive(change) ==
  IF RLe(RAbs(change), TrendEpsilon) THEN "stable"
  ELSE IF RGt(change, RZero) THEN "increasing"
  ELSE "decreasing"

TrendOf(change) ==
  IF RLt(RAbs(change), TrendEpsilon) THEN "stable"
  ELSE IF RGt(change, RZero) THEN "increasing"
  ELSE "decreasing"

\* Lines 258-264: the drifts of `symbol` in the snapshots newer than the
\* cutoff, oldest first; a snapshot without the symbol contributes nothing.
RECURSIVE RelevantDrifts(_, _, _)
RelevantDrifts(history, symbol, cutoff) ==
  IF history = <<>> THEN <<>>
  ELSE LET h   == Head(history)
           pos == FindIndex(h.positions, LAMBDA p : p.symbol = symbol)
           rest == RelevantDrifts(Tail(history), symbol, cutoff)
       IN  IF h.timestamp > cutoff /\ pos # 0
             THEN <<h.positions[pos].drift>> \o rest
             ELSE rest

\* Lines 253-287: getDriftTrend(symbol, days) at clock value `time`.  The
\* cutoff is `days` calendar days before the call (setDate, lines 255-256).
\* The three strings formatted with toFixed (changePercent, firstDrift,
\* lastDrift) are left out of the result.
getDriftTrend(history, symbol, days, time) ==
  LET cutoff   == time - days * MinutesPerDay
      relevant == RelevantDrifts(history, symbol, cutoff)
  IN  IF Len(relevant) < 2
        THEN [op |-> "getDriftTrend", trend |-> "insufficient_data",
              points |-> Len(relevant)]
        ELSE LET first  == relevant[1]
                 last   == relevant[Len(relevant)]
                 change == RSub(last, first)
             IN  [op |-> "getDriftTrend", trend |-> TrendOf(change),
                  change |-> change, dataPoints |-> Len(relevant)]

\* Mutant of AcknowledgedAt: the acknowledgement also restamps the alert.
AcknowledgedAtRestamped(alerts, i, time) ==
  [alerts EXCEPT ![i].acknowledged = TRUE, ![i].acknowledgedAt = time,
                 ![i].timestamp = time]

\* Lines 201-213: the log after acknowledgeAlert(alertId); unchanged when no
\* alert has that id.
AcknowledgedAt(alerts, i, time) ==
  [alerts EXCEPT ![i].acknowledged = TRUE, ![i].acknowledgedAt = time]

acknowledgeAlert(alerts, alertId, time) ==
  LET i == FindIndex(alerts, LAMBDA a : a.id = alertId)
  IN  IF i = 0 THEN alerts ELSE AcknowledgedAt(alerts, i, time)

\* Lines 193-196.
getActiveAlerts(alerts) == SelectSeq(alerts, LAMBDA a : ~a.acknowledged)

(***************************************************************************)
(* mNAV (mnav.js, prices.js) and the daemon's snapshot history             *)
(* (history.js).                                                           *)
(***************************************************************************)
\* `!price`: null and 0 are both falsy.
Falsy(price) == price = null \/ price = 0

\* Number.prototype.toFixed(2) read back by parseFloat: the nearest
\* hundredth, the larger one on a tie (for a ratio that is not negative).
ToFixed2(r) == Frac((2 * 100 * r.n + r.d) \div (2 * r.d), 100)

\* prices.js 68-76 and mnav.js 21-23: market cap over holdings value, as
\* the product of the price ratio and the share ratio.
MnavRatio(btcPrice, mstrPrice, mstrData) ==
  RMul(Frac(mstrPrice, btcPrice),
       Frac(mstrData.sharesOutstanding, mstrData.btcHoldings))

\* Mutant of MnavStatus: the thresholds themselves are out of range.
MnavStatusInclusive(mnav, thresholds) ==
  IF RGe(mnav, thresholds.mnavHigh) THEN "OVERVALUED"
  ELSE IF RLe(mnav, thresholds.mnavLow) THEN "UNDERVALUED"
  ELSE "NORMAL"

\* mnav.js 26-29.
MnavStatus(mnav, thresholds) ==
  IF RGt(mnav, thresholds.mnavHigh) THEN "OVERVALUED"
  ELSE IF RLt(mnav, thresholds.mnavLow) THEN "UNDERVALUED"
  ELSE "NORMAL"

calculateMnav(config, prices, time) ==
  IF Falsy(prices["BTC"]) \/ Falsy(prices["MSTR"])
    THEN [error |-> "Failed to fetch prices"]
    ELSE LET mnav == MnavRatio(prices["BTC"], prices["MSTR"], getMstrData(config))
         IN  [error |-> NoError,
              mnav |-> ToFixed2(mnav),
              btcPrice |-> prices["BTC"],
              mstrPrice |-> prices["MSTR"],
              status |-> MnavStatus(mnav, getThresholds(config)),
              timestamp |-> time]

\* toISOString().split('T')[0]: the calendar day of a clock value.
DateOf(time) == time \div MinutesPerDay

\* Mutant of saveSnapshot: every save is appended.
saveSnapshotAppended(snapshots, data, time) ==
  LET snapshot == [date |-> DateOf(time), timestamp |-> time, data |-> data]
  IN  SliceLast(Append(snapshots, snapshot), MaxSnapshots)

\* history.js 26-47: the snapshots after saveSnapshot(data).
saveSnapshot(snapshots, data, time) ==
  LET snapshot == [date |-> DateOf(time), timestamp |-> time, data |-> data]
      existingIndex == FindIndex(snapshots, LAMBDA x : x.date = snapshot.date)
      updated == IF existingIndex > 0
                   THEN [snapshots EXCEPT ![existingIndex] = snapshot]
                   ELSE Append(snapshots, snapshot)
  IN  SliceLast(updated, MaxSnapshots)

\* Daemon 39-45: the mNAV message handed to sendAlert, if any.
MnavMessages(mnav, thresholds, time) ==
  IF RGt(mnav, thresholds.mnavHigh)
    THEN <<[kind |-> "mnav", time |-> time, what |-> "overvalued"]>>
  ELSE IF RLt(mnav, thresholds.mnavLow)
    THEN <<[kind |-> "mnav", time |-> time, what |-> "undervalued"]>>
  ELSE <<>>

\* Daemon 54-63: the drift message handed to sendAlert, if any.
DriftedPositions(positions) == SelectSeq(positions, LAMBDA p : p.needsRebalance)

DriftMessages(positions, time) ==
  IF Len(DriftedPositions(positions)) > 0
    THEN <<[kind |-> "drift", time |-> time,
            what |-> Map(DriftedPositions(positions), LAMBDA p : p.symbol)]>>
    ELSE <<>>

\* Daemon 68-79: the data of the daemon's snapshot.
SnapshotData(mnav, mnavResult, portfolioResult) ==
  [mnav |-> mnav,
   portfolioValue |-> portfolioResult.totalValue,
   positions |-> Map(portfolioResult.positions, LAMBDA p :
                   [symbol |-> p.symbol, value |-> p.value,
                    allocation |-> p.actualAllocation]),
   btcPrice |-> mnavResult.btcPrice,
   mstrPrice |-> mnavResult.mstrPrice]

(***************************************************************************)
(* Rebalance planner (getRebalanceRecommendation, drift-alerts.js 292-331).*)
(***************************************************************************)
\* The sign of a - b.
Sign(a, b) == IF RLt(a, b) THEN 0 - 1 ELSE IF RGt(a, b) THEN 1 ELSE 0

\* Mutant of HighPriorityDrift: a cut-off of 0.20.
HighPriorityDriftRaised == Frac(20, 100)

\* Line 314.
HighPriorityDrift == Frac(10, 100)

\* Mutant of Recommend: shares without Math.abs.
RecommendSigned(position, totalValue) ==
  LET targetValue  == RMul(RInt(totalValue), position.targetAllocation)
      currentValue == position.value
      diff         == RSub(targetValue, RInt(currentValue))
  IN  [symbol |-> position.symbol,
       action |-> IF RGt(diff, RZero) THEN "BUY" ELSE "SELL",
       currentValue |-> currentValue,
       targetValue |-> targetValue,
       difference |-> RAbs(diff),
       shares |-> IF position.price > 0
                    THEN RDiv(diff, RInt(position.price))
                    ELSE RZero,
       priority |-> IF RGt(RAbs(position.drift), HighPriorityDrift)
                      THEN "HIGH" ELSE "MEDIUM"]

\* Mutant of Recommend: BUY and SELL exchanged.
RecommendFlipped(position, totalValue) ==
  LET targetValue  == RMul(RInt(totalValue), position.targetAllocation)
      currentValue == position.value
      diff         == RSub(targetValue, RInt(currentValue))
  IN  [symbol |-> position.symbol,
       action |-> IF RLt(diff, RZero) THEN "BUY" ELSE "SELL",
       currentValue |-> currentValue,
       targetValue |-> targetValue,
       difference |-> RAbs(diff),
       shares |-> IF position.price > 0
                    THEN RAbs(RDiv(diff, RInt(position.price)))
                    ELSE RZero,
       priority |-> IF RGt(RAbs(position.drift), HighPriorityDrift)
                      THEN "HIGH" ELSE "MEDIUM"]

\* Lines 303-315: the recommendation for one position.
Recommend(position, totalValue) ==
  LET targetValue  == RMul(RInt(totalValue), position.targetAllocation)
      currentValue == position.value
      diff         == RSub(targetValue, RInt(currentValue))
  IN  [symbol |-> position.symbol,
       action |-> IF RGt(diff, RZero) THEN "BUY" ELSE "SELL",
       currentValue |-> currentValue,
       targetValue |-> targetValue,
       difference |-> RAbs(diff),
       shares |-> IF position.price > 0
                    THEN RAbs(RDiv(diff, RInt(position.price)))
                    ELSE RZero,
       priority |-> IF RGt(RAbs(position.drift), HighPriorityDrift)
                      THEN "HIGH" ELSE "MEDIUM"]

\* Mutant of CompareRecommendations: a.difference - b.difference.
CompareRecommendationsAscending(a, b) ==
  IF a.priority # b.priority
    THEN (IF a.priority = "HIGH" THEN 0 - 1 ELSE 1)
    ELSE Sign(a.difference, b.difference)

\* Lines 320-323: the comparator of the sort.
CompareRecommendations(a, b) ==
  IF a.priority # b.priority
    THEN (IF a.priority = "HIGH" THEN 0 - 1 ELSE 1)
    ELSE Sign(b.difference, a.difference)

\* Line 320: Array.prototype.sort(compare), a stable insertion sort: each
\* element goes after every element the comparator does not order behind it.
RECURSIVE InsertRecommendation(_, _)
InsertRecommendation(sorted, x) ==
  IF sorted = <<>> THEN <<x>>
  ELSE IF CompareRecommendations(Head(sorted), x) <= 0
         THEN <<Head(sorted)>> \o InsertRecommendation(Tail(sorted), x)
         ELSE <<x>> \o sorted

RECURSIVE SortRecommendationsFrom(_, _)
SortRecommendationsFrom(sorted, rest) ==
  IF rest = <<>> THEN sorted
  ELSE SortRecommendationsFrom(InsertRecommendation(sorted, Head(rest)), Tail(rest))

SortRecommendations(recommendations) ==
  SortRecommendationsFrom(<<>>, recommendations)

\* Mutant of Recommendations: positions selected by the priority cut-off.
RecommendationsHighOnly(portfolio) ==
  Map(SelectSeq(portfolio.positions,
                LAMBDA p : RGt(RAbs(p.drift), HighPriorityDrift)),
      LAMBDA p : Recommend(p, portfolio.totalValue))

\* Lines 301-317: one recommendation per flagged position, in position order.
Recommendations(portfolio) ==
  Map(SelectSeq(portfolio.positions, LAMBDA p : p.needsRebalance),
      LAMBDA p : Recommend(p, portfolio.totalValue))

\* Mutant of getRebalanceRecommendation: a failed valuation planned as an
\* empty portfolio.
getRebalanceRecommendationOfNothing(portfolio, time) ==
  IF portfolio.error # NoError
    THEN [op |-> "getRebalanceRecommendation", error |-> NoError,
          needsRebalance |-> FALSE,
          recommendations |-> <<>>,
          totalValue |-> 0,
          timestamp |-> time]
    ELSE LET recommendations ==
                   SortRecommendations(Recommendations(portfolio))
         IN  [op |-> "getRebalanceRecommendation", error |-> NoError,
              needsRebalance |-> Len(recommendations) > 0,
              recommendations |-> recommendations,
              totalValue |-> portfolio.totalValue,
              timestamp |-> time]

\* Lines 292-331.
getRebalanceRecommendation(portfolio, time) ==
  IF portfolio.error # NoError
    THEN [op |-> "getRebalanceRecommendation", error |-> portfolio.error]
    ELSE LET recommendations ==
                   SortRecommendations(Recommendations(portfolio))
         IN  [op |-> "getRebalanceRecommendation", error |-> NoError,
              needsRebalance |-> Len(recommendations) > 0,
              recommendations |-> recommendations,
              totalValue |-> portfolio.totalValue,
              timestamp |-> time]

(***************************************************************************)
(* Monte Carlo projection (montecarlo.js, drift-alerts.js 366-598).  The   *)
(* random source is a stream of shocks, one per position and month: the    *)
(* value of monthlyVol * randomNormal() for that draw.                     *)
(***************************************************************************)
DEFAULT_PARAMS ==
  [simulations |-> 1000, years |-> 10,
   confidence |-> <<Frac(5, 100), Frac(25, 100), Frac(50, 100),
                    Frac(75, 100), Frac(95, 100)>>]

ASSET_PARAMS ==
  [BTC  |-> [meanReturn |-> Frac(40, 100), volatility |-> Frac(80, 100),
             minReturn |-> Frac(0 - 80, 100)],
   MSTR |-> [meanReturn |-> Frac(50, 100), volatility |-> Frac(100, 100),
             minReturn |-> Frac(0 - 90, 100)],
   STRD |-> [meanReturn |-> Frac(20, 100), volatility |-> Frac(50, 100),
             minReturn |-> Frac(0 - 50, 100)],
   default |-> [meanReturn |-> Frac(8, 100), volatility |-> Frac(20, 100),
                minReturn |-> Frac(0 - 40, 100)]]

\* Line 418: ASSET_PARAMS[p.symbol] || ASSET_PARAMS.default.
AssetParams(symbol) ==
  IF symbol \in DOMAIN ASSET_PARAMS THEN ASSET_PARAMS[symbol]
  ELSE ASSET_PARAMS.default

MonthsPerYear == 12

\* The k-th draw (from 0) of a stream, which repeats.
Draw(stream, k) == stream[(k % Len(stream)) + 1]

\* Math.max(a, b).
RMax(a, b) == IF RLt(a, b) THEN b ELSE a

\* Mutant of EffectiveReturn: no floor.
EffectiveReturnUnfloored(params, shock) ==
  RAdd(RDiv(params.meanReturn, RInt(MonthsPerYear)), shock)

\* Lines 426-433: the return applied to a position in one month.
EffectiveReturn(params, shock) ==
  LET monthlyMean  == RDiv(params.meanReturn, RInt(MonthsPerYear))
      randomReturn == RAdd(monthlyMean, shock)
  IN  RMax(randomReturn, RDiv(params.minReturn, RInt(MonthsPerYear)))

RECURSIVE SumRationals(_)
SumRationals(s) == IF s = <<>> THEN RZero ELSE RAdd(Head(s), SumRationals(Tail(s)))

\* Lines 424-437: the position values after one more month of a run whose
\* first draw is draw number `first`.
StepMonth(values, positions, month, stream, first) ==
  [i \in 1..Len(positions) |->
     LET k == first + (month - 1) * Len(positions) + (i - 1)
         r == EffectiveReturn(AssetParams(positions[i].symbol), Draw(stream, k))
     IN  RMul(values[i], RAdd(RInt(1), r))]

\* Lines 421-440: the rest of a path from `month` on.
RECURSIVE SimulateFrom(_, _, _, _, _, _, _)
SimulateFrom(path, values, month, monthly, positions, stream, first) ==
  IF month > monthly THEN path
  ELSE LET next == StepMonth(values, positions, month, stream, first)
       IN  SimulateFrom(Append(path, [month |-> month, value |-> SumRationals(next)]),
                        next, month + 1, monthly, positions, stream, first)

\* Mutant of runSimulationPath: the runs work on the positions themselves,
\* so that a run starts from the values the run before it has left.
RECURSIVE ValuesAfter(_, _, _, _, _, _)
ValuesAfter(values, month, monthly, positions, stream, first) ==
  IF month > monthly \/ values = <<>> THEN values
  ELSE ValuesAfter(StepMonth(values, positions, month, stream, first),
                   month + 1, monthly, positions, stream, first)

RECURSIVE ValuesLeft(_, _, _, _)
ValuesLeft(positions, years, stream, first) ==
  LET perRun == years * MonthsPerYear * Len(positions)
  IN  IF first <= 0 \/ perRun = 0
        THEN Map(positions, LAMBDA p : RInt(p.value))
        ELSE ValuesAfter(ValuesLeft(positions, years, stream, first - perRun),
                         1, years * MonthsPerYear, positions, stream,
                         first - perRun)

runSimulationPathShared(positions, years, stream, first) ==
  LET start == ValuesLeft(positions, years, stream, first)
  IN  SimulateFrom(<<[month |-> 0, value |-> SumRationals(start)]>>, start, 1,
                   years * MonthsPerYear, positions, stream, first)

\* Mutant of runSimulationPath: the path opens with the first month's
\* point, numbered 0.
runSimulationPathLate(positions, years, stream, first) ==
  LET start == Map(positions, LAMBDA p : RInt(p.value))
      opening == StepMonth(start, positions, 1, stream, first)
  IN  SimulateFrom(<<[month |-> 0, value |-> SumRationals(opening)]>>, start, 1,
                   years * MonthsPerYear, positions, stream, first)

\* Lines 410-443: one path; point m + 1 of the sequence is month m.
runSimulationPath(positions, years, stream, first) ==
  LET start == Map(positions, LAMBDA p : RInt(p.value))
  IN  SimulateFrom(<<[month |-> 0, value |-> SumRationals(start)]>>, start, 1,
                   years * MonthsPerYear, positions, stream, first)

\* values.sort((a, b) => a - b): ascending.
RECURSIVE InsertNumber(_, _)
InsertNumber(sorted, x) ==
  IF sorted = <<>> THEN <<x>>
  ELSE IF RLe(Head(sorted), x)
         THEN <<Head(sorted)>> \o InsertNumber(Tail(sorted), x)
         ELSE <<x>> \o sorted

RECURSIVE SortNumbers(_)
SortNumbers(s) ==
  IF s = <<>> THEN <<>>
  ELSE InsertNumber(SortNumbers(SubSeq(s, 1, Len(s) - 1)), s[Len(s)])

\* A number that is not one: NaN, or the `undefined` of an index outside
\* its array.
NaN == [n |-> 0, d |-> 0]

\* values[idx], idx counted from 0.
At(values, idx) == IF idx + 1 \in DOMAIN values THEN values[idx + 1] ELSE NaN

Mean(values) ==
  IF Len(values) = 0 THEN NaN
  ELSE RDiv(SumRationals(values), RInt(Len(values)))

\* Mutant of PercentileIndex: Math.ceil.
PercentileIndexCeil(pct, length) == (pct.n * length + pct.d - 1) \div pct.d

\* Math.floor(pct * values.length).
PercentileIndex(pct, length) == (pct.n * length) \div pct.d

\* Mutant of MedianIndex: the lower middle, Math.floor((length - 1) / 2).
MedianIndexLower(length) == (length - 1) \div 2

\* Math.floor(values.length / 2).
MedianIndex(length) == length \div 2

\* Lines 472-490: the statistics of one month.
MonthStatistics(allPaths, month, confidence) ==
  LET values == SortNumbers(Map(allPaths, LAMBDA path : path[month + 1].value))
  IN  [month |-> month,
       mean |-> Mean(values),
       median |-> At(values, MedianIndex(Len(values))),
       min |-> At(values, 0),
       max |-> At(values, Len(values) - 1),
       percentiles |-> Map(confidence, LAMBDA pct :
                         [pct |-> pct,
                          value |-> At(values, PercentileIndex(pct, Len(values)))])]

Fraction(count, total) == IF total = 0 THEN NaN ELSE Frac(count, total)

\* Mutant of FinalStats: v <= initialValue counts as a loss.
FinalStatsLossOrEqual(allPaths, initialValue) ==
  LET finalValues == Map(allPaths, LAMBDA path : path[Len(path)].value)
      sorted == SortNumbers(finalValues)
      Count(Test(_)) == Len(SelectSeq(finalValues, Test))
      initial == RInt(initialValue)
  IN  [mean |-> Mean(finalValues),
       median |-> At(sorted, MedianIndex(Len(sorted))),
       min |-> At(sorted, 0),
       max |-> At(sorted, Len(sorted) - 1),
       probLoss |-> Fraction(Count(LAMBDA v : RLe(v, initial)), Len(finalValues)),
       probDouble |-> Fraction(Count(LAMBDA v : RGe(v, RMul(initial, RInt(2)))),
                               Len(finalValues)),
       prob5x |-> Fraction(Count(LAMBDA v : RGe(v, RMul(initial, RInt(5)))),
                           Len(finalValues))]

\* Lines 493-502.
FinalStats(allPaths, initialValue) ==
  LET finalValues == Map(allPaths, LAMBDA path : path[Len(path)].value)
      sorted == SortNumbers(finalValues)
      Count(Test(_)) == Len(SelectSeq(finalValues, Test))
      initial == RInt(initialValue)
  IN  [mean |-> Mean(finalValues),
       median |-> At(sorted, MedianIndex(Len(sorted))),
       min |-> At(sorted, 0),
       max |-> At(sorted, Len(sorted) - 1),
       probLoss |-> Fraction(Count(LAMBDA v : RLt(v, initial)), Len(finalValues)),
       probDouble |-> Fraction(Count(LAMBDA v : RGe(v, RMul(initial, RInt(2)))),
                               Len(finalValues)),
       prob5x |-> Fraction(Count(LAMBDA v : RGe(v, RMul(initial, RInt(5)))),
                           Len(finalValues))]

\* Infinity, as v / 0 for v > 0 and as the exponent 1 / 0.
Infinity == [n |-> 1, d |-> 0]

IsNumber(x) == x.d # 0

\* Line 505: v / initialValue.
GrowthRatio(v, initialValue) ==
  IF initialValue # 0 THEN RDiv(v, RInt(initialValue))
  ELSE IF v = RZero THEN NaN
  ELSE Infinity

\* Line 505: Math.pow(x, 1 / years) for x >= 0 and years >= 0.  With years
\* = 0 the exponent is Infinity: NaN for x = 1, Infinity over 1, 0 under
\* 1.  A root of degree 2 or more is kept as the rational under its degree.
PowRoot(x, years) ==
  IF x = NaN THEN NaN
  ELSE IF years = 0
    THEN (IF x = Infinity \/ RGt(x, RInt(1)) THEN Infinity
          ELSE IF x = RInt(1) THEN NaN
          ELSE RZero)
  ELSE IF x = Infinity \/ years = 1 \/ x = RZero \/ x = RInt(1) THEN x
  ELSE [n |-> x.n, d |-> x.d, root |-> years]

\* Line 505: the annualized growth rate of one path.
Cagr(v, initialValue, years) ==
  LET grown == PowRoot(GrowthRatio(v, initialValue), years)
  IN  IF IsNumber(grown) THEN RSub(grown, RInt(1)) ELSE grown

\* Lines 506-511.  A NaN among the rates makes their sum, Math.min and
\* Math.max NaN, and the comparator of the sort answers NaN for it, which
\* leaves it in place.
CagrStats(cagrs) ==
  IF \E i \in 1..Len(cagrs) : ~ IsNumber(cagrs[i])
    THEN [mean |-> NaN,
          median |-> At(cagrs, MedianIndex(Len(cagrs))),
          min |-> NaN, max |-> NaN]
    ELSE LET sorted == SortNumbers(cagrs)
         IN  [mean |-> Mean(cagrs),
              median |-> At(sorted, MedianIndex(Len(sorted))),
              min |-> At(sorted, 0),
              max |-> At(sorted, Len(sorted) - 1)]

\* Line 505: the rates of the final values, which line 496 has sorted in
\* place.
Cagrs(allPaths, initialValue, years) ==
  Map(SortNumbers(Map(allPaths, LAMBDA path : path[Len(path)].value)),
      LAMBDA v : Cagr(v, initialValue, years))

\* Lines 448-522.
runMonteCarlo(portfolio, options, stream, time) ==
  LET params == Spread(DEFAULT_PARAMS, options)
  IN  IF portfolio.error # NoError
        THEN [op |-> "runMonteCarlo", error |-> portfolio.error]
        ELSE LET positions == portfolio.positions
                 perRun    == params.years * MonthsPerYear * Len(positions)
                 allPaths  == [i \in 1..params.simulations |->
                                 runSimulationPath(positions, params.years, stream,
                                                   (i - 1) * perRun)]
             IN  [op |-> "runMonteCarlo", error |-> NoError,
                  initialValue |-> portfolio.totalValue,
                  years |-> params.years,
                  simulations |-> params.simulations,
                  paths |-> allPaths,
                  statistics |-> [m \in 1..(params.years * MonthsPerYear + 1) |->
                                    MonthStatistics(allPaths, m - 1, params.confidence)],
                  finalStats |-> FinalStats(allPaths, portfolio.totalValue),
                  cagrs |-> Cagrs(allPaths, portfolio.totalValue, params.years),
                  cagrStats |-> CagrStats(Cagrs(allPaths, portfolio.totalValue,
                                                params.years)),
                  timestamp |-> time]

(***************************************************************************)
(* State.                                                                  *)
(***************************************************************************)
VARIABLES
  configFile,       \* config.json: the top-level keys it supplies
  alertConfigFile,  \* data/alert-config.json: the top-level keys it supplies
  prices,           \* what the price APIs answer now: symbol -> price or null
  now,              \* the clock, in minutes
  alertsFile,       \* data/drift-alerts.json: the alert log
  historyFile,      \* data/drift-history.json: the drift history
  snapshotsFile,    \* data/history.json: the daemon's daily snapshots
  pc,               \* per checkDriftAlerts invocation: "idle" or "awaiting"
  frame,            \* per invocation: what it read before its await
  ret,              \* the value the last completed operation returned
  sent,             \* the messages handed to sendAlert, oldest first
  dpc,              \* the daemon's runCheck: "idle" or "portfolio"
  dframe,           \* runCheck's mnavResult while it awaits the portfolio
  lastRun,          \* the clock value of the daemon's last runCheck, or null
  allEmitted,       \* history: every alert ever emitted, acknowledgements applied
  nChecks,          \* history: checkDriftAlerts calls so far
  nAcks             \* history: acknowledgeAlert calls so far

vars == <<configFile, alertConfigFile, prices, now, alertsFile, historyFile,
          snapshotsFile, pc, frame, ret, sent, dpc, dframe, lastRun,
          allEmitted, nChecks, nAcks>>

fileVars == <<alertsFile, historyFile, snapshotsFile>>
envVars == <<configFile, alertConfigFile, prices, now>>
checkVars == <<pc, frame, nChecks>>
daemonVars == <<sent, dpc, dframe, lastRun>>

Procs == 1..MaxInFlight

NoFile == [k \in {} |-> 0]
NoRet == [op |-> "none"]
IdleFrame == [config |-> NoFile, logAtCall |-> <<>>]

(***************************************************************************)
(* The inputs the model draws from.                                        *)
(***************************************************************************)
Holding(symbol, quantity, num, den) ==
  [symbol |-> symbol, quantity |-> quantity, targetAllocation |-> Frac(num, den)]

Market(btc, mstr, strd) == [BTC |-> btc, MSTR |-> mstr, STRD |-> strd]

\* The holdings and prices of the specification's end-to-end scenario.
EndToEndHoldings == <<Holding("BTC", 1, 6, 10), Holding("MSTR", 10, 4, 10)>>
EndToEndPrices == Market(100000, 400, null)

ConfigWith(holdings) == [portfolio |-> [holdings |-> holdings]]

DriftMarkets ==
  { Market(600, 40, null),      \* on target
    Market(650, 35, null),      \* drift 0.05: a warning
    EndToEndPrices,             \* drift 0.36: critical
    Market(null, 40, null) }    \* BTC price unavailable


(***************************************************************************)
(* checkDriftAlerts (drift-alerts.js 123-188), in two steps: the call up   *)
(* to `await calculatePortfolio()`, and the rest, which runs to its return *)
(* without another suspension.                                             *)
(***************************************************************************)
CheckStart(p, limit) ==
  /\ pc[p] = "idle"
  /\ nChecks < limit
  /\ pc' = [pc EXCEPT ![p] = "awaiting"]
  /\ frame' = [frame EXCEPT ![p] = [config |-> loadAlertConfig(alertConfigFile),
                                    logAtCall |-> alertsFile]]
  /\ nChecks' = nChecks + 1
  /\ UNCHANGED <<envVars, fileVars, ret, daemonVars, allEmitted, nAcks>>

\* Mutant of ExistingAlerts: the log loaded before the await.
ExistingAlertsAtCall(p) == frame[p].logAtCall

\* Line 132: loadAlerts(), after the await.
ExistingAlerts(p) == alertsFile

CheckResume(p) ==
  /\ pc[p] = "awaiting"
  /\ pc' = [pc EXCEPT ![p] = "idle"]
  /\ frame' = [frame EXCEPT ![p] = IdleFrame]
  /\ LET config    == frame[p].config
         portfolio == calculatePortfolio(loadConfig(configFile), prices, now)
     IN  IF portfolio.error # NoError
           THEN /\ ret' = [op |-> "checkDriftAlerts", error |-> portfolio.error,
                           alerts |-> <<>>]
                /\ UNCHANGED <<fileVars, allEmitted>>
           ELSE LET existingAlerts == ExistingAlerts(p)
                    alerts == EmitAlerts(portfolio.positions, existingAlerts,
                                         now, config)
                IN  /\ historyFile' = saveDriftSnapshot(historyFile,
                                                        portfolio.positions, now)
                    /\ alertsFile' = SaveNewAlerts(existingAlerts, alerts, alertsFile)
                    /\ allEmitted' = allEmitted \o alerts
                    /\ ret' = [op |-> "checkDriftAlerts", error |-> NoError,
                               alerts |-> alerts,
                               positions |-> portfolio.positions,
                               totalValue |-> portfolio.totalValue,
                               timestamp |-> portfolio.timestamp]
                    /\ UNCHANGED snapshotsFile
  /\ UNCHANGED <<envVars, nChecks, daemonVars, nAcks>>

(***************************************************************************)
(* acknowledgeAlert (drift-alerts.js 201-213): synchronous.                *)
(***************************************************************************)
UnknownId == <<"BTC", null>>

AlertIds == {alertsFile[i].id : i \in 1..Len(alertsFile)} \cup {UnknownId}

Acknowledge(alertId, limit) ==
  /\ nAcks < limit
  /\ nAcks' = nAcks + 1
  /\ LET i == FindIndex(alertsFile, LAMBDA a : a.id = alertId)
         k == Len(allEmitted) - Len(alertsFile) + i
     IN  /\ alertsFile' = acknowledgeAlert(alertsFile, alertId, now)
         /\ allEmitted' = IF i = 0 THEN allEmitted
                          ELSE AcknowledgedAt(allEmitted, k, now)
         /\ ret' = [op |-> "acknowledgeAlert", found |-> i > 0, alertId |-> alertId]
  /\ UNCHANGED <<envVars, historyFile, snapshotsFile, checkVars, daemonVars>>

(***************************************************************************)
(* The daemon's runCheck (started once and then by setInterval), in two    *)
(* steps: up to `await calculatePortfolio()`, and the rest.                *)
(***************************************************************************)
RunCheckMnav ==
  /\ dpc = "idle"
  /\ lastRun = null \/ now - lastRun >= CheckIntervalMinutes
  /\ lastRun' = now
  /\ LET config     == loadConfig(configFile)
         mnavResult == calculateMnav(config, prices, now)
     IN  IF mnavResult.error # NoError
           THEN UNCHANGED <<sent, dpc, dframe>>
           ELSE /\ sent' = sent \o MnavMessages(mnavResult.mnav,
                                                getThresholds(config), now)
                /\ dframe' = mnavResult
                /\ dpc' = "portfolio"
  /\ UNCHANGED <<envVars, fileVars, checkVars, ret, allEmitted, nAcks>>

RunCheckPortfolio ==
  /\ dpc = "portfolio"
  /\ dpc' = "idle"
  /\ dframe' = NoRet
  /\ LET portfolioResult == calculatePortfolio(loadConfig(configFile), prices, now)
     IN  IF portfolioResult.error # NoError
           THEN UNCHANGED <<sent, snapshotsFile>>
           ELSE /\ sent' = sent \o DriftMessages(portfolioResult.positions, now)
                /\ snapshotsFile' =
                     saveSnapshot(snapshotsFile,
                                  SnapshotData(dframe.mnav, dframe, portfolioResult),
                                  now)
  /\ UNCHANGED <<envVars, alertsFile, historyFile, checkVars, ret, lastRun,
                 allEmitted, nAcks>>

(***************************************************************************)
(* The environment: time passes, prices move.                              *)
(***************************************************************************)
Tick(step, horizon) ==
  /\ now + step <= horizon
  /\ now' = now + step
  /\ UNCHANGED <<configFile, alertConfigFile, prices, fileVars, checkVars, ret,
                 daemonVars, allEmitted, nAcks>>

SetPrices(market) ==
  /\ market # prices
  /\ prices' = market
  /\ UNCHANGED <<configFile, alertConfigFile, now, fileVars, checkVars, ret,
                 daemonVars, allEmitted, nAcks>>

(***************************************************************************)
(* getRebalanceRecommendation and runMonteCarlo: each awaits the valuation *)
(* first and then runs to its return; neither touches a file.              *)
(***************************************************************************)
GetRebalanceRecommendation ==
  /\ ret' = getRebalanceRecommendation(
              calculatePortfolio(loadConfig(configFile), prices, now), now)
  /\ UNCHANGED <<envVars, fileVars, checkVars, daemonVars, allEmitted, nAcks>>

RunMonteCarlo(options, stream) ==
  /\ ret' = runMonteCarlo(calculatePortfolio(loadConfig(configFile), prices, now),
                          options, stream, now)
  /\ UNCHANGED <<envVars, fileVars, checkVars, daemonVars, allEmitted, nAcks>>

(***************************************************************************)
(* getDriftTrend (drift-alerts.js 253-287): synchronous, reads the drift    *)
(* history and writes nothing.                                             *)
(***************************************************************************)
GetDriftTrend(symbol, days) ==
  /\ ret' = getDriftTrend(historyFile, symbol, days, now)
  /\ UNCHANGED <<envVars, fileVars, checkVars, daemonVars, allEmitted, nAcks>>

(***************************************************************************)
(* getActiveAlerts (drift-alerts.js 193-196): synchronous, reads the alert  *)
(* log and writes nothing.                                                 *)
(***************************************************************************)
GetActiveAlerts ==
  /\ ret' = [op |-> "getActiveAlerts", alerts |-> getActiveAlerts(alertsFile)]
  /\ UNCHANGED <<envVars, fileVars, checkVars, daemonVars, allEmitted, nAcks>>

(***************************************************************************)
(* The two configuration loaders called on their own: loadAlertConfig      *)
(* (drift-alerts.js 31-56) and loadConfig followed by getThresholds        *)
(* (taxharvest.js 291-313).  Each reads its file and writes nothing.       *)
(***************************************************************************)
LoadAlertConfig ==
  /\ ret' = [op |-> "loadAlertConfig", config |-> loadAlertConfig(alertConfigFile)]
  /\ UNCHANGED <<envVars, fileVars, checkVars, daemonVars, allEmitted, nAcks>>

LoadThresholds ==
  /\ ret' = [op |-> "getThresholds",
             thresholds |-> getThresholds(loadConfig(configFile))]
  /\ UNCHANGED <<envVars, fileVars, checkVars, daemonVars, allEmitted, nAcks>>

(***************************************************************************)
(* calculateMnav (mnav.js 5-45) called on its own: it awaits the two       *)
(* prices and then runs to its return.                                     *)
(***************************************************************************)
CalculateMnav ==
  /\ ret' = [op |-> "calculateMnav",
             result |-> calculateMnav(loadConfig(configFile), prices, now)]
  /\ UNCHANGED <<envVars, fileVars, checkVars, daemonVars, allEmitted, nAcks>>

(***************************************************************************)
(* Initial states.                                                         *)
(***************************************************************************)
InitState(config, alertConfig, market) ==
  /\ configFile = config
  /\ alertConfigFile = alertConfig
  /\ prices = market
  /\ now = 0
  /\ alertsFile = <<>>
  /\ historyFile = <<>>
  /\ snapshotsFile = <<>>
  /\ pc = [p \in Procs |-> "idle"]
  /\ frame = [p \in Procs |-> IdleFrame]
  /\ ret = NoRet
  /\ sent = <<>>
  /\ dpc = "idle"
  /\ dframe = NoRet
  /\ lastRun = null
  /\ allEmitted = <<>>
  /\ nChecks = 0
  /\ nAcks = 0

(***************************************************************************)
(* Spec: the drift monitor under concurrent checks and acknowledgements,   *)
(* polled every other hour, prices moving freely.                          *)
(***************************************************************************)
PollMinutes == 2 * CheckIntervalMinutes

Init ==
  \E market \in DriftMarkets :
    InitState(ConfigWith(EndToEndHoldings), NoFile, market)

Next ==
  \/ \E p \in Procs : CheckStart(p, MaxChecks)
  \/ \E p \in Procs : CheckResume(p)
  \/ \E alertId \in AlertIds : Acknowledge(alertId, MaxAcks)
  \/ Tick(PollMinutes, MaxTicks * PollMinutes)
  \/ \E market \in DriftMarkets : SetPrices(market)

Spec == Init /\ [][Next]_vars

(***************************************************************************)
(* SpecDaemon: the hourly daemon beside one drift check at a time.         *)
(***************************************************************************)
DaemonMarkets ==
  { Market(600, 40, null), EndToEndPrices, Market(600, null, null) }

InitDaemon ==
  \E market \in DaemonMarkets :
    InitState(ConfigWith(EndToEndHoldings), NoFile, market)

NextDaemon ==
  \/ CheckStart(1, MaxChecks)
  \/ CheckResume(1)
  \/ RunCheckMnav
  \/ RunCheckPortfolio
  \/ Tick(CheckIntervalMinutes, MaxHours * CheckIntervalMinutes)
  \/ \E market \in DaemonMarkets : SetPrices(market)

SpecDaemon == InitDaemon /\ [][NextDaemon]_vars

(***************************************************************************)
(* SpecRetention: one polling loop from an empty log, one check per        *)
(* cooldown period of a portfolio that stays drifted, the operator         *)
(* acknowledging the oldest alert of the log at most once.                 *)
(***************************************************************************)
InitRetention == InitState(ConfigWith(EndToEndHoldings), NoFile, EndToEndPrices)

PolledNow ==
  historyFile # <<>> /\ historyFile[Len(historyFile)].timestamp = now

NextRetention ==
  \/ ~PolledNow /\ CheckStart(1, MaxPolls)
  \/ CheckResume(1)
  \/ alertsFile # <<>> /\ Acknowledge(alertsFile[1].id, 1)
  \/ PolledNow /\ Tick(DefaultCooldown, MaxPolls * DefaultCooldown)

SpecRetention == InitRetention /\ [][NextRetention]_vars

(***************************************************************************)
(* SpecValuation: the valuation and what is computed from it, applied once *)
(* to each of a range of holdings, prices and thresholds.                  *)
(***************************************************************************)
ThreeHoldings ==
  <<Holding("BTC", 1, 5, 10), Holding("MSTR", 10, 3, 10), Holding("STRD", 100, 2, 10)>>

ValuationHoldings ==
  { <<>>, EndToEndHoldings, ThreeHoldings, <<Holding("STRD", 10, 1, 1)>> }

ThresholdsWith(rebalanceTrigger) ==
  [mnavHigh |-> Frac(25, 10), mnavLow |-> Frac(85, 100),
   driftTrigger |-> Frac(5, 100), rebalanceTrigger |-> rebalanceTrigger]

ValuationConfigs ==
  { ConfigWith(h) : h \in ValuationHoldings }
    \cup { [portfolio |-> [holdings |-> h], thresholds |-> ThresholdsWith(Frac(t, 100))] :
             h \in ValuationHoldings, t \in {2, 5} }

ValuationAlertConfigs ==
  { NoFile,
    [thresholds |-> [warning |-> Frac(2, 100), critical |-> Frac(4, 100)]],
    [thresholds |-> [warning |-> Frac(10, 100), critical |-> Frac(5, 100)]] }

ValuationMarkets ==
  { Market(btc, mstr, strd) : btc \in {null, 650, 5500, 100000},
                              mstr \in {null, 35, 400},
                              strd \in {null, 0, 5} }

\* A stream of shocks under which every position's monthly return is 0.
FlatStream(holdings) ==
  IF holdings = <<>> THEN <<RZero>>
  ELSE [i \in 1..Len(holdings) |->
          RSub(RZero, RDiv(AssetParams(holdings[i].symbol).meanReturn,
                           RInt(MonthsPerYear)))]

MonteCarloOptions ==
  { [simulations |-> 2, years |-> 0], [simulations |-> 1, years |-> 1] }

InitValuation ==
  \E config \in ValuationConfigs, alertConfig \in ValuationAlertConfigs,
     market \in ValuationMarkets :
    InitState(config, alertConfig, market)

NextValuation ==
  \/ CheckStart(1, 1)
  \/ CheckResume(1)
  \/ GetRebalanceRecommendation
  \/ \E options \in MonteCarloOptions :
       RunMonteCarlo(options, FlatStream(getHoldings(loadConfig(configFile))))

SpecValuation == InitValuation /\ [][NextValuation]_vars

(***************************************************************************)
(* SpecSimulation: runMonteCarlo over portfolios worth something and       *)
(* nothing, one call of one to four runs of zero or one year, and streams  *)
(* of draws that single out one month of each run.                         *)
(***************************************************************************)
\* The return a draw aims at: nothing, twice or five times the value, or
\* a loss of everything, which the floor of line 433 cuts short.
TargetReturn ==
  [flat |-> RZero, double |-> RInt(1), quintuple |-> RInt(4),
   crash |-> RInt(0 - 1)]

\* The stream under which run r meets plan[r] in its month r and no
\* change in its other months: shock = target - meanReturn / 12.
PlannedShock(holdings, plan, k) ==
  LET i     == ((k - 1) % Len(holdings)) + 1
      month == (((k - 1) \div Len(holdings)) % MonthsPerYear) + 1
      run   == ((k - 1) \div (MonthsPerYear * Len(holdings))) + 1
      aim   == IF month = run THEN TargetReturn[plan[run]]
               ELSE TargetReturn.flat
  IN  RSub(aim, RDiv(AssetParams(holdings[i].symbol).meanReturn,
                     RInt(MonthsPerYear)))

PlannedStream(holdings, plan) ==
  IF holdings = <<>> THEN <<RZero>>
  ELSE [k \in 1..(Len(plan) * MonthsPerYear * Len(holdings)) |->
          PlannedShock(holdings, plan, k)]

SimulationPlans ==
  { <<"flat", "flat", "flat", "flat">>,
    <<"double", "flat", "crash", "quintuple">>,
    <<"crash", "quintuple", "double", "flat">>,
    <<"crash", "double", "double", "crash">> }

SimulationOptions ==
  { [simulations |-> n, years |-> y] : n \in 1..4, y \in {0, 1} }

SimulationMarkets ==
  { EndToEndPrices, Market(5500, 400, 5), Market(650, 35, 0),
    Market(null, 400, 5) }

InitSimulation ==
  \E holdings \in ValuationHoldings, market \in SimulationMarkets :
    InitState(ConfigWith(holdings), NoFile, market)

NextSimulation ==
  /\ ret = NoRet
  /\ \E options \in SimulationOptions, plan \in SimulationPlans :
       RunMonteCarlo(options,
                     PlannedStream(getHoldings(loadConfig(configFile)), plan))

SpecSimulation == InitSimulation /\ [][NextSimulation]_vars

(***************************************************************************)
(* SpecHistory: the drift history over a month.  Checks are made ten days  *)
(* apart or closer while the allocation of BTC moves between its target    *)
(* and six points above it, and the trend of any symbol is asked for over  *)
(* a week or thirteen days at any moment.                                  *)
(***************************************************************************)
HistoryMarkets ==
  { Market(1200, 80, null), Market(1220, 78, null),
    Market(1230, 77, null), Market(1320, 68, null) }

TrendDays == {7, 13}

InitHistory ==
  InitState(ConfigWith(EndToEndHoldings), NoFile, Market(1200, 80, null))

NextHistory ==
  \/ CheckStart(1, MaxHistoryChecks)
  \/ CheckResume(1)
  \/ Tick(10 * MinutesPerDay, RetentionDays * MinutesPerDay)
  \/ pc[1] = "idle" /\ \E market \in HistoryMarkets : SetPrices(market)
  \/ pc[1] = "idle" /\ \E symbol \in Symbols, days \in TrendDays :
       GetDriftTrend(symbol, days)

SpecHistory == InitHistory /\ [][NextHistory]_vars

(***************************************************************************)
(* SpecLog: the polling loop of SpecRetention with an operator who reads   *)
(* the active alerts at any moment and, once the log is within two alerts  *)
(* of its capacity, acknowledges its oldest alert, its newest alert or an  *)
(* alert that does not exist.                                              *)
(***************************************************************************)
OperatorIds ==
  IF alertsFile = <<>> THEN {UnknownId}
  ELSE {alertsFile[1].id, alertsFile[Len(alertsFile)].id, UnknownId}

NextLog ==
  \/ ~PolledNow /\ CheckStart(1, MaxPolls)
  \/ CheckResume(1)
  \/ Len(alertsFile) + 2 >= MaxAlerts
       /\ \E alertId \in OperatorIds : Acknowledge(alertId, MaxAcks)
  \/ pc[1] = "idle" /\ GetActiveAlerts
  \/ PolledNow /\ Tick(DefaultCooldown, MaxPolls * DefaultCooldown)

SpecLog == InitRetention /\ [][NextLog]_vars

(***************************************************************************)
(* SpecCooldown: one polling loop over two cooldown periods, polled at     *)
(* most hourly, while the portfolio moves between its targets, a warning   *)
(* drift and a critical drift.                                             *)
(***************************************************************************)
CooldownMarkets ==
  { Market(600, 40, null), Market(650, 35, null), EndToEndPrices }

InitCooldown ==
  \E market \in CooldownMarkets :
    InitState(ConfigWith(EndToEndHoldings), NoFile, market)

NextCooldown ==
  \/ CheckStart(1, MaxCooldownChecks)
  \/ CheckResume(1)
  \/ Tick(CheckIntervalMinutes, 2 * DefaultCooldown)
  \/ pc[1] = "idle" /\ \E market \in CooldownMarkets : SetPrices(market)

SpecCooldown == InitCooldown /\ [][NextCooldown]_vars

(***************************************************************************)
(* SpecMnav: calculateMnav and the daemon's check under prices that put    *)
(* the ratio on, just beside and well away from each threshold, or leave   *)
(* it undefined, for the default MSTR data and thresholds and for          *)
(* configured ones.                                                        *)
(***************************************************************************)
MnavMarkets ==
  { Market(160000, 1000, null),   \* 2.5 with the default MSTR data
    Market(100000, 626, null),    \* 2.504
    Market(8000, 17, null),       \* 0.85
    Market(200000, 423, null),    \* 0.846
    EndToEndPrices,               \* 1.6, the configured high threshold
    Market(600, 40, null),        \* 26.67
    Market(100000, 100, null),    \* 0.4, the configured low threshold
    Market(null, 400, null),
    Market(600, null, null) }

MnavConfigs ==
  { ConfigWith(EndToEndHoldings),
    [portfolio |-> [holdings |-> EndToEndHoldings],
     mstrData |-> [btcHoldings |-> 1000, sharesOutstanding |-> 400000],
     thresholds |-> [mnavHigh |-> Frac(16, 10), mnavLow |-> Frac(4, 10),
                     driftTrigger |-> Frac(5, 100),
                     rebalanceTrigger |-> Frac(10, 100)]] }

InitMnav ==
  \E config \in MnavConfigs, market \in MnavMarkets :
    InitState(config, NoFile, market)

NextMnav ==
  \/ dpc = "idle" /\ CalculateMnav
  \/ RunCheckMnav
  \/ RunCheckPortfolio
  \/ Tick(CheckIntervalMinutes, MaxMnavHours * CheckIntervalMinutes)
  \/ dpc = "idle" /\ \E market \in MnavMarkets : SetPrices(market)

SpecMnav == InitMnav /\ [][NextMnav]_vars

(***************************************************************************)
(* SpecSnapshots: the daemon over a year and a day, two of its checks a    *)
(* day being followed, with the MSTR price coming and going once the       *)
(* snapshot history is within one snapshot of its capacity.                *)
(***************************************************************************)
RanNow == lastRun = now /\ dpc = "idle"

InitSnapshots == InitState(ConfigWith(EndToEndHoldings), NoFile, EndToEndPrices)

NextSnapshots ==
  \/ RunCheckMnav
  \/ RunCheckPortfolio
  \/ RanNow /\ Tick(MinutesPerDay \div 2, MaxSnapshotDays * MinutesPerDay)
  \/ Len(snapshotsFile) + 1 >= MaxSnapshots
       /\ \E market \in {EndToEndPrices, Market(100000, null, null)} :
            SetPrices(market)

SpecSnapshots == InitSnapshots /\ [][NextSnapshots]_vars

(***************************************************************************)
(* SpecDuplicates: the drift monitor of Spec, one check at a time, over a  *)
(* configuration that lists BTC twice.                                     *)
(***************************************************************************)
DuplicateHoldings ==
  <<Holding("BTC", 1, 3, 10), Holding("BTC", 1, 3, 10), Holding("MSTR", 10, 4, 10)>>

InitDuplicates ==
  \E market \in DriftMarkets :
    InitState(ConfigWith(DuplicateHoldings), NoFile, market)

NextDuplicates ==
  \/ CheckStart(1, MaxChecks)
  \/ CheckResume(1)
  \/ \E alertId \in AlertIds : Acknowledge(alertId, MaxAcks)
  \/ pc[1] = "idle" /\ GetActiveAlerts
  \/ Tick(PollMinutes, MaxTicks * PollMinutes)
  \/ \E market \in DriftMarkets : SetPrices(market)

SpecDuplicates == InitDuplicates /\ [][NextDuplicates]_vars

(***************************************************************************)
(* SpecCrowded: the drift monitor over a portfolio of BTC and a hundred    *)
(* small holdings that no price is quoted for, with alert thresholds of    *)
(* half a point and five points: one check alerts on more positions than   *)
(* the log keeps.                                                          *)
(***************************************************************************)
CrowdedHoldings ==
  <<Holding("BTC", 1, 5, 100)>>
    \o [i \in 1..MaxAlerts |-> Holding("S" \o ToString(i), 1, 95, 100 * MaxAlerts)]

InitCrowded ==
  \E market \in DriftMarkets :
    InitState(ConfigWith(CrowdedHoldings),
              [thresholds |-> [warning |-> Frac(5, 1000), critical |-> Frac(5, 100)]],
              market)

NextCrowded ==
  \/ CheckStart(1, MaxChecks)
  \/ CheckResume(1)
  \/ Tick(CheckIntervalMinutes, MaxTicks * CheckIntervalMinutes)
  \/ \E market \in DriftMarkets : SetPrices(market)

SpecCrowded == InitCrowded /\ [][NextCrowded]_vars

(***************************************************************************)
(* SpecConfig: config.json and alert-config.json written by hand, each     *)
(* supplying any subset of the options it is read for, with values other   *)
(* than the defaults; either loader is called at any moment.               *)
(***************************************************************************)
ConfigFiles ==
  LET supplied == [mnavHigh |-> RInt(3), mnavLow |-> Frac(1, 2),
                   driftTrigger |-> Frac(2, 100),
                   rebalanceTrigger |-> Frac(4, 100)]
  IN  {NoFile} \cup { [thresholds |-> [k \in keys |-> supplied[k]]] :
                        keys \in SUBSET DOMAIN supplied }

AlertConfigFiles ==
  LET supplied == [warning |-> Frac(3, 100), critical |-> Frac(6, 100)]
      thresholds == { [k \in keys |-> supplied[k]] : keys \in SUBSET DOMAIN supplied }
  IN  {NoFile, [cooldown |-> CheckIntervalMinutes]}
        \cup { [thresholds |-> t] : t \in thresholds }
        \cup { [thresholds |-> t, cooldown |-> CheckIntervalMinutes] : t \in thresholds }

InitConfig ==
  \E config \in ConfigFiles, alertConfig \in AlertConfigFiles :
    InitState(config, alertConfig, EndToEndPrices)

NextConfig ==
  \/ LoadAlertConfig
  \/ LoadThresholds

SpecConfig == InitConfig /\ [][NextConfig]_vars

(***************************************************************************)
(* Properties of the drift classifier and its alert log.                   *)
(***************************************************************************)
SameKind(a, b) == a.symbol = b.symbol /\ a.severity = b.severity

C1_Cooldown == loadAlertConfig(alertConfigFile).cooldown

C1_OnePerWindow ==
  \A i, j \in 1..Len(allEmitted) :
    (i < j /\ SameKind(allEmitted[i], allEmitted[j]))
      => allEmitted[j].timestamp - allEmitted[i].timestamp >= C1_Cooldown

C1_NoEmissionInCooldown ==
  \A i \in 1..Len(allEmitted') :
    i > Len(allEmitted)
      => ~ \E j \in 1..Len(alertsFile) :
             /\ SameKind(alertsFile[j], allEmitted'[i])
             /\ now - alertsFile[j].timestamp < C1_Cooldown

\* C1: a check emits no alert for a symbol and severity while the log it
\* reads holds an alert of that symbol and severity younger than the
\* cooldown, so that alerts of one symbol and severity are never less than
\* the cooldown apart.
C1_CooldownSuppresses ==
  [] C1_OnePerWindow /\ [][C1_NoEmissionInCooldown]_vars

\* A second check, 120 minutes after the first alert, has classified a
\* position that is still drifted and emitted nothing.
C1_Witness ==
  /\ ret.op = "checkDriftAlerts" /\ ret.error = NoError
  /\ ret.alerts = <<>>
  /\ \E i \in 1..Len(ret.positions), j \in 1..Len(alertsFile) :
       /\ alertsFile[j].symbol = ret.positions[i].symbol
       /\ alertsFile[j].severity = AlertSeverity.CRITICAL
       /\ RGe(RAbs(ret.positions[i].drift), Frac(10, 100))
       /\ alertsFile[j].timestamp < ret.timestamp
       /\ ret.timestamp - alertsFile[j].timestamp < C1_Cooldown

C2_Thresholds == loadAlertConfig(alertConfigFile).thresholds

C2_AlertsOf(symbol) ==
  SelectSeq(alertsFile, LAMBDA a : a.symbol = symbol)

\* C2: every logged alert is critical or warning with |drift| at or over
\* the threshold of its severity, and after a check on an empty log a position has
\* a critical alert when |drift| >= critical, a warning alert when
\* warning <= |drift| < critical, and no alert below the warning threshold.
C2_SeverityClassification ==
  /\ \A i \in 1..Len(alertsFile) :
       /\ alertsFile[i].severity \in {AlertSeverity.WARNING, AlertSeverity.CRITICAL}
       /\ alertsFile[i].severity = AlertSeverity.CRITICAL
            => RGe(RAbs(alertsFile[i].drift), C2_Thresholds.critical)
       /\ alertsFile[i].severity = AlertSeverity.WARNING
            => /\ RGe(RAbs(alertsFile[i].drift), C2_Thresholds.warning)
               /\ RLt(RAbs(alertsFile[i].drift), C2_Thresholds.critical)
  /\ (ret.op = "checkDriftAlerts" /\ ret.error = NoError)
       => \A i \in 1..Len(ret.positions) :
            LET position == ret.positions[i]
                logged   == C2_AlertsOf(position.symbol)
            IN  IF RGe(RAbs(position.drift), C2_Thresholds.critical)
                  THEN /\ Len(logged) = 1
                       /\ logged[1].severity = AlertSeverity.CRITICAL
                       /\ logged[1].drift = position.drift
                  ELSE IF RGe(RAbs(position.drift), C2_Thresholds.warning)
                    THEN /\ Len(logged) = 1
                         /\ logged[1].severity = AlertSeverity.WARNING
                         /\ logged[1].drift = position.drift
                    ELSE logged = <<>>

\* One check has logged a warning at exactly the warning threshold and a
\* critical alert at exactly the critical threshold.
C2_Witness ==
  /\ ret.op = "checkDriftAlerts" /\ ret.error = NoError
  /\ \E i \in 1..Len(alertsFile) :
       /\ alertsFile[i].severity = AlertSeverity.WARNING
       /\ RAbs(alertsFile[i].drift) = C2_Thresholds.warning
  /\ \E i \in 1..Len(alertsFile) :
       /\ alertsFile[i].severity = AlertSeverity.CRITICAL
       /\ RAbs(alertsFile[i].drift) = C2_Thresholds.critical

C3_Emitted == SubSeq(allEmitted', Len(allEmitted) + 1, Len(allEmitted'))

C3_AppendAndTrim ==
  Len(allEmitted') > Len(allEmitted)
    => alertsFile' = SliceLast(alertsFile \o C3_Emitted, MaxAlerts)

\* C3: a check that emits alerts leaves the log equal to the last 100 of
\* the previous log followed by the new alerts, in that order, so a log
\* grown from empty never holds more than 100 alerts.
C3_LogKeepsLast100 ==
  [] (Len(alertsFile) <= MaxAlerts) /\ [][C3_AppendAndTrim]_vars

\* More than 100 alerts have been emitted and the log holds the last 100.
C3_Witness ==
  /\ Len(allEmitted) > MaxAlerts
  /\ Len(alertsFile) = MaxAlerts
  /\ alertsFile[1] # allEmitted[1]
  /\ alertsFile[MaxAlerts] = allEmitted[Len(allEmitted)]

\* C4: with invocations interleaving only at their await, the log is at
\* all times the last 100 of every alert emitted so far, each carrying the
\* acknowledgement it was given: none is overwritten or lost.
C4_NoLostUpdate == alertsFile = SliceLast(allEmitted, MaxAlerts)

\* An invocation is suspended at its await since the log was empty; in the
\* meantime another invocation has emitted alerts and one was acknowledged.
C4_Witness ==
  \E p \in Procs :
    /\ pc[p] = "awaiting"
    /\ frame[p].logAtCall = <<>>
    /\ \E i \in 1..Len(alertsFile) : alertsFile[i].acknowledged
    /\ nChecks >= 2

\* C5: every drift notification names only symbols for which an alert was
\* emitted at the instant of the notification.
C5_NotifiesNewAlertsOnly ==
  \A k \in 1..Len(sent) :
    sent[k].kind = "drift"
      => \A n \in 1..Len(sent[k].what) :
           \E i \in 1..Len(allEmitted) :
             /\ allEmitted[i].symbol = sent[k].what[n]
             /\ allEmitted[i].timestamp = sent[k].time

(***************************************************************************)
(* Properties of the operations that value the portfolio first.            *)
(***************************************************************************)
Valuation == calculatePortfolio(loadConfig(configFile), prices, now)

ValuationFailed == prices["BTC"] = null \/ prices["MSTR"] = null

Planned == ret.op = "getRebalanceRecommendation" /\ ret.error = NoError

\* C6: while the valuation fails, checkDriftAlerts, getRebalanceRecommendation
\* and runMonteCarlo each return the valuation's error and nothing computed
\* (checkDriftAlerts with an empty list of alerts), and neither an alert
\* nor a drift snapshot is written.
C6_FailureShortCircuits ==
  ValuationFailed
    => /\ alertsFile = <<>> /\ historyFile = <<>> /\ allEmitted = <<>>
       /\ ret.op = "checkDriftAlerts"
            => ret = [op |-> "checkDriftAlerts",
                      error |-> "Failed to fetch prices", alerts |-> <<>>]
       /\ ret.op = "getRebalanceRecommendation"
            => ret = [op |-> "getRebalanceRecommendation",
                      error |-> "Failed to fetch prices"]
       /\ ret.op = "runMonteCarlo"
            => ret = [op |-> "runMonteCarlo", error |-> "Failed to fetch prices"]

\* With a price missing, a drift check has run to its end and the planner
\* has just returned the error.
C6_Witness ==
  /\ ValuationFailed
  /\ nChecks = 1 /\ pc[1] = "idle"
  /\ ret = [op |-> "getRebalanceRecommendation", error |-> "Failed to fetch prices"]

\* C7: in the returned list no MEDIUM recommendation precedes a HIGH one,
\* and within one priority the difference never increases.
C7_SortedByPriorityThenDifference ==
  Planned
    => \A i, j \in 1..Len(ret.recommendations) :
         i < j
           => LET a == ret.recommendations[i]
                  b == ret.recommendations[j]
              IN  /\ ~ (a.priority = "MEDIUM" /\ b.priority = "HIGH")
                  /\ a.priority = b.priority => RGe(a.difference, b.difference)

\* Three recommendations, the HIGH one ahead of two MEDIUM ones of
\* different size, returned in another order than the positions'.
C7_Witness ==
  /\ Planned
  /\ Len(ret.recommendations) = 3
  /\ ret.recommendations[1].priority = "HIGH"
  /\ ret.recommendations[2].priority = "MEDIUM"
  /\ ret.recommendations[3].priority = "MEDIUM"
  /\ RGt(ret.recommendations[2].difference, ret.recommendations[3].difference)
  /\ ret.recommendations[1].symbol # Valuation.positions[1].symbol

C8_PositionOf(symbol) ==
  Valuation.positions[FindIndex(Valuation.positions, LAMBDA p : p.symbol = symbol)]

C8_Arithmetic(r, position) ==
  /\ r.targetValue = RMul(RInt(Valuation.totalValue), position.targetAllocation)
  /\ r.currentValue = position.value
  /\ r.difference = RAbs(RSub(r.targetValue, RInt(position.value)))
  /\ r.action \in {"BUY", "SELL"}
  /\ r.action = "BUY" <=> RGt(r.targetValue, RInt(position.value))
  /\ position.price > 0 => r.shares = RDiv(r.difference, RInt(position.price))
  /\ position.price = 0 => r.shares = RZero

\* C8 as stated: each recommendation has targetValue = totalValue *
\* targetAllocation, difference = |targetValue - value|, BUY exactly when
\* targetValue > value, which is when drift < 0, and shares = difference /
\* price, or 0 for a price of 0.
C8_AsStated ==
  Planned
    => \A i \in 1..Len(ret.recommendations) :
         LET r == ret.recommendations[i]
             position == C8_PositionOf(r.symbol)
         IN  /\ C8_Arithmetic(r, position)
             /\ r.action = "BUY" <=> RLt(position.drift, RZero)

\* C8 amended: the same, with BUY the same as drift < 0 only for a
\* portfolio worth more than 0.
C8_BuyWhenTargetAboveValue ==
  Planned
    => \A i \in 1..Len(ret.recommendations) :
         LET r == ret.recommendations[i]
             position == C8_PositionOf(r.symbol)
         IN  /\ C8_Arithmetic(r, position)
             /\ Valuation.totalValue > 0
                  => (r.action = "BUY" <=> RLt(position.drift, RZero))

\* A BUY and a SELL in one plan, both with shares = difference / price.
C8_Witness ==
  /\ Planned
  /\ \E i, j \in 1..Len(ret.recommendations) :
       /\ ret.recommendations[i].action = "BUY"
       /\ ret.recommendations[j].action = "SELL"
       /\ RGt(ret.recommendations[i].shares, RZero)
       /\ RGt(ret.recommendations[j].shares, RZero)

C9_Trigger == getThresholds(loadConfig(configFile)).rebalanceTrigger

C9_Flagged(symbol) ==
  SelectSeq(Valuation.positions, LAMBDA p : p.symbol = symbol /\ p.needsRebalance)

C9_For(symbol) ==
  SelectSeq(ret.recommendations, LAMBDA r : r.symbol = symbol)

\* C9: a position is flagged exactly when |drift| > rebalanceTrigger, the
\* plan holds one recommendation for each flagged position and none for
\* any other, and the plan's flag is set exactly when its list is not empty.
C9_OnePerFlaggedPosition ==
  /\ ~ ValuationFailed
       => \A i \in 1..Len(Valuation.positions) :
            Valuation.positions[i].needsRebalance
              <=> RGt(RAbs(Valuation.positions[i].drift), C9_Trigger)
  /\ Planned
       => /\ \A symbol \in Symbols :
               Len(C9_For(symbol)) = Len(C9_Flagged(symbol))
          /\ ret.needsRebalance <=> Len(ret.recommendations) > 0

\* A plan for three positions of which one sits exactly at the trigger:
\* two recommendations, none for the position at the trigger.
C9_Witness ==
  /\ Planned
  /\ Len(Valuation.positions) = 3
  /\ Len(ret.recommendations) = 2
  /\ ret.needsRebalance
  /\ \E i \in 1..3 :
       /\ RAbs(Valuation.positions[i].drift) = C9_Trigger
       /\ C9_For(Valuation.positions[i].symbol) = <<>>

\* round(r * 10000): r to four decimals.
C10_Round4(r) ==
  LET scaled == (Abs(r.n) * 10000 * 2 + r.d) \div (2 * r.d)
  IN  IF r.n < 0 THEN 0 - scaled ELSE scaled

C10_Scenario ==
  /\ getHoldings(loadConfig(configFile)) = EndToEndHoldings
  /\ prices["BTC"] = 100000 /\ prices["MSTR"] = 400
  /\ C9_Trigger = Frac(10, 100)

\* C10: holdings of 1 BTC at target 0.6 and 10 MSTR at target 0.4, priced
\* 100000 and 400, value at 100000 and 4000 of 104000; the drifts round to
\* +0.3615 and -0.3615, both positions are flagged at a trigger of 0.10,
\* and the plan is to SELL BTC and to BUY MSTR.
C10_EndToEnd ==
  (C10_Scenario /\ ret.op = "getRebalanceRecommendation")
    => /\ ret.error = NoError
       /\ Valuation.totalValue = 104000
       /\ Valuation.positions[1].symbol = "BTC"
       /\ Valuation.positions[1].value = 100000
       /\ Valuation.positions[2].symbol = "MSTR"
       /\ Valuation.positions[2].value = 4000
       /\ C10_Round4(Valuation.positions[1].drift) = 3615
       /\ C10_Round4(Valuation.positions[2].drift) = 0 - 3615
       /\ Valuation.positions[1].needsRebalance
       /\ Valuation.positions[2].needsRebalance
       /\ ret.needsRebalance
       /\ Len(ret.recommendations) = 2
       /\ C9_For("BTC") # <<>> /\ C9_For("BTC")[1].action = "SELL"
       /\ C9_For("MSTR") # <<>> /\ C9_For("MSTR")[1].action = "BUY"

\* The planner has returned for the scenario.
C10_Witness ==
  /\ C10_Scenario
  /\ Planned
  /\ ret.totalValue = 104000
  /\ Len(ret.recommendations) = 2

(***************************************************************************)
(* Properties of the valuation and of the projection.                      *)
(***************************************************************************)
Checked == ret.op = "checkDriftAlerts" /\ ret.error = NoError

C11_Holdings == getHoldings(loadConfig(configFile))

C11_ValueOf(h) ==
  IF h.symbol \in DOMAIN prices /\ prices[h.symbol] # null
    THEN prices[h.symbol] * h.quantity
    ELSE 0

\* C11: in the snapshot a check returns, each position's value is price *
\* quantity, 0 for a missing price, and totalValue is their sum; the
\* actualAllocation fractions sum to 1 when totalValue > 0 and are all 0
\* when totalValue = 0.
C11_TotalAndAllocations ==
  Checked
    => /\ Len(ret.positions) = Len(C11_Holdings)
       /\ \A i \in 1..Len(ret.positions) :
            ret.positions[i].value = C11_ValueOf(C11_Holdings[i])
       /\ ret.totalValue
            = SumInts([i \in 1..Len(C11_Holdings) |-> C11_ValueOf(C11_Holdings[i])])
       /\ ret.totalValue > 0
            => SumRationals([i \in 1..Len(ret.positions) |->
                               ret.positions[i].actualAllocation]) = RInt(1)
       /\ ret.totalValue = 0
            => \A i \in 1..Len(ret.positions) :
                 ret.positions[i].actualAllocation = RZero

\* A snapshot of three positions, one of them without a price, whose
\* allocations sum to 1.
C11_Witness ==
  /\ Checked
  /\ Len(ret.positions) = 3
  /\ ret.totalValue > 0
  /\ \E i \in 1..3 : ret.positions[i].price = null /\ ret.positions[i].value = 0
  /\ \E i \in 1..3 : RGt(ret.positions[i].actualAllocation, RZero)
                     /\ RLt(ret.positions[i].actualAllocation, RInt(1))

Simulated == ret.op = "runMonteCarlo" /\ ret.error = NoError

\* C12: every path of a simulation has years * 12 + 1 points, point m + 1
\* carrying month m, and starts at the portfolio's total value; one run of
\* zero years is the single point of month 0 at the initial total value.
C12_PathShape ==
  Simulated
    => /\ Len(ret.paths) = ret.simulations
       /\ ret.initialValue = Valuation.totalValue
       /\ \A i \in 1..Len(ret.paths) :
            /\ Len(ret.paths[i]) = ret.years * 12 + 1
            /\ \A m \in 1..Len(ret.paths[i]) : ret.paths[i][m].month = m - 1
            /\ ret.paths[i][1].value = RInt(Valuation.totalValue)
       /\ (ret.simulations = 1 /\ ret.years = 0)
            => ret.paths = << <<[month |-> 0,
                                 value |-> RInt(Valuation.totalValue)]>> >>

\* Three runs of one year over a portfolio worth something: 13 points
\* each, the last ones different.
C12_Witness ==
  /\ Simulated
  /\ ret.simulations = 3 /\ ret.years = 1
  /\ ret.initialValue > 0
  /\ Len(ret.paths[1]) = 13
  /\ ret.paths[1][13].value # ret.paths[2][13].value

C13_ValuesAt(month) == [i \in 1..Len(ret.paths) |-> ret.paths[i][month + 1].value]

\* v is the element at index idx (from 0) of values in ascending order.
C13_HasRank(values, v, idx) ==
  /\ \E i \in 1..Len(values) : values[i] = v
  /\ Cardinality({i \in 1..Len(values) : RLt(values[i], v)}) <= idx
  /\ idx < Cardinality({i \in 1..Len(values) : RLe(values[i], v)})

C13_Ordered(st) ==
  /\ IsNumber(st.min) /\ IsNumber(st.max)
  /\ \A k \in 1..Len(st.percentiles) : IsNumber(st.percentiles[k].value)
  /\ RLe(st.min, st.percentiles[1].value)
  /\ \A k \in 1..(Len(st.percentiles) - 1) :
       RLe(st.percentiles[k].value, st.percentiles[k + 1].value)
  /\ RLe(st.percentiles[Len(st.percentiles)].value, st.max)

\* C13: for every month of a simulation of at least one run, min <= p5 <=
\* p25 <= p50 <= p75 <= p95 <= max, each percentile being the value of
\* rank floor(p * N) among the month's N values in ascending order, a rank
\* from 0 to N - 1.
C13_PercentilesOrdered ==
  Simulated
    => \A m \in 1..Len(ret.statistics) :
         LET st     == ret.statistics[m]
             values == C13_ValuesAt(m - 1)
             N      == Len(values)
         IN  /\ st.month = m - 1
             /\ Len(st.percentiles) = 5
             /\ C13_Ordered(st)
             /\ C13_HasRank(values, st.min, 0)
             /\ C13_HasRank(values, st.max, N - 1)
             /\ \A k \in 1..5 :
                  LET p   == DEFAULT_PARAMS.confidence[k]
                      idx == (p.n * N) \div p.d
                  IN  /\ st.percentiles[k].pct = p
                      /\ idx \in 0..(N - 1)
                      /\ C13_HasRank(values, st.percentiles[k].value, idx)

\* Four runs whose values after a year are all different and not in
\* ascending order of run: p5 is the least, p25 and p50 the next two, p75
\* and p95 the greatest.
C13_Witness ==
  /\ Simulated
  /\ ret.simulations = 4 /\ ret.years = 1
  /\ RGt(ret.paths[1][13].value, ret.paths[2][13].value)
  /\ LET st == ret.statistics[13]
     IN  /\ RLt(st.percentiles[1].value, st.percentiles[2].value)
         /\ RLt(st.percentiles[2].value, st.percentiles[3].value)
         /\ RLt(st.percentiles[3].value, st.percentiles[4].value)
         /\ st.percentiles[4].value = st.percentiles[5].value
         /\ st.percentiles[5].value = st.max

C14_FinalValues == [i \in 1..Len(ret.paths) |-> ret.paths[i][Len(ret.paths[i])].value]

C14_Rates == \A i \in 1..Len(ret.cagrs) : IsNumber(ret.cagrs[i])

\* The medians of every month, of the final values and of the growth
\* rates have rank idx (from 0) in ascending order; growth rates that are
\* not numbers have a median that is not one.
C14_MediansHaveRank(idx) ==
  /\ \A m \in 1..Len(ret.statistics) :
       C13_HasRank(C13_ValuesAt(m - 1), ret.statistics[m].median, idx)
  /\ C13_HasRank(C14_FinalValues, ret.finalStats.median, idx)
  /\ IF C14_Rates
       THEN C13_HasRank(ret.cagrs, ret.cagrStats.median, idx)
       ELSE ~ IsNumber(ret.cagrStats.median)

\* C14 as stated: each median is the value at the middle sorted index,
\* which for an even number of paths is the lower of the two middle
\* values.
C14_AsStated ==
  Simulated
    => /\ C14_MediansHaveRank(ret.simulations \div 2)
       /\ ret.simulations % 2 = 0
            => C14_MediansHaveRank(ret.simulations \div 2 - 1)

\* C14 amended: each median is the value at sorted index floor(N / 2),
\* which for an even number of paths is the upper of the two middle
\* values, not their average.
C14_MedianIsUpperMiddle ==
  Simulated => C14_MediansHaveRank(ret.simulations \div 2)

\* Four runs with four different values after a year and four different
\* growth rates: the medians are the third smallest.
C14_Witness ==
  /\ Simulated
  /\ ret.simulations = 4 /\ ret.years = 1
  /\ C14_Rates
  /\ Cardinality({C14_FinalValues[i] : i \in 1..4}) = 4
  /\ Cardinality({v \in {C14_FinalValues[i] : i \in 1..4} :
                    RLt(v, ret.finalStats.median)}) = 2
  /\ Cardinality({v \in {ret.cagrs[i] : i \in 1..4} :
                    RLt(v, ret.cagrStats.median)}) = 2

C15_Floor(symbol) == RDiv(AssetParams(symbol).minReturn, RInt(12))

\* The least of the floors of the assets.
C15_LeastFloor ==
  CHOOSE f \in {C15_Floor(symbol) : symbol \in Symbols} :
    \A symbol \in Symbols : RLe(f, C15_Floor(symbol))

C15_Start == [j \in 1..Len(Valuation.positions) |-> RInt(Valuation.positions[j].value)]

\* From any values, under any planned draw, a month leaves each position
\* at or above its floor.
C15_MonthKeepsFloor(values, stream, month) ==
  LET after == StepMonth(values, Valuation.positions, month, stream, 0)
  IN  \A j \in 1..Len(values) :
        /\ RGe(after[j],
               RMul(values[j],
                    RAdd(RInt(1), C15_Floor(Valuation.positions[j].symbol))))
        /\ RGt(values[j], RZero) => RGt(after[j], RZero)

\* C15: whatever the draw, a month leaves every position at or above value
\* * (1 + minReturn / 12), a positive value positive, and every point of
\* every simulated path is at least the point before it times 1 plus the
\* least floor, and never negative.
C15_ReturnFloor ==
  Simulated
    => /\ \A plan \in SimulationPlans, month \in 1..4 :
            C15_MonthKeepsFloor(
              C15_Start,
              PlannedStream(getHoldings(loadConfig(configFile)), plan), month)
       /\ \A i \in 1..Len(ret.paths) :
            \A m \in 1..Len(ret.paths[i]) :
              /\ RGe(ret.paths[i][m].value, RZero)
              /\ ret.initialValue > 0 => RGt(ret.paths[i][m].value, RZero)
              /\ m > 1 => RGe(ret.paths[i][m].value,
                              RMul(ret.paths[i][m - 1].value,
                                   RAdd(RInt(1), C15_LeastFloor)))

\* A run has met a crash: its value fell in a month, and stayed positive.
C15_Witness ==
  /\ Simulated
  /\ ret.years = 1
  /\ \E i \in 1..Len(ret.paths) :
       \E m \in 2..13 :
         /\ RLt(ret.paths[i][m].value, ret.paths[i][m - 1].value)
         /\ RGt(ret.paths[i][m].value, RZero)

C16_Stream(plan) == PlannedStream(getHoldings(loadConfig(configFile)), plan)

\* The planned stream from its draw number k on.
C16_From(plan, k) ==
  LET holdings == getHoldings(loadConfig(configFile))
      length   == Len(plan) * 12 * Len(holdings)
  IN  IF holdings = <<>> THEN <<RZero>>
      ELSE [j \in 1..length |->
              PlannedShock(holdings, plan, ((j - 1 + k) % length) + 1)]

\* Run i of the simulation, as the only run of a simulation of its own
\* that meets the same draws.
C16_Alone(plan, i) ==
  runSimulationPath(Valuation.positions, ret.years,
                    C16_From(plan, (i - 1) * ret.years * 12 * Len(C11_Holdings)),
                    0)

\* The simulation has met the draws of this plan.
C16_Under(plan) ==
  \A i \in 1..Len(ret.paths) :
    ret.paths[i] = runSimulationPath(Valuation.positions, ret.years,
                                     C16_Stream(plan),
                                     (i - 1) * ret.years * 12 * Len(C11_Holdings))

\* C16: all paths of a simulation start at the portfolio's total value,
\* which the runs leave as it was, and each run's path is the path the
\* same draws give a run that no other run precedes.
C16_RunsIndependent ==
  Simulated
    => /\ \A i \in 1..Len(ret.paths) :
            ret.paths[i][1].value = RInt(Valuation.totalValue)
       /\ \E plan \in SimulationPlans : C16_Under(plan)
       /\ \A plan \in SimulationPlans :
            C16_Under(plan)
              => \A i \in 1..Len(ret.paths) : ret.paths[i] = C16_Alone(plan, i)

\* Three runs of a year: the first has ended away from where it started,
\* and the second and third start where the first did.
C16_Witness ==
  /\ Simulated
  /\ ret.simulations = 3 /\ ret.years = 1
  /\ ret.paths[1][13].value # ret.paths[1][1].value
  /\ ret.paths[2][13].value # ret.paths[2][1].value
  /\ ret.paths[2][1].value = ret.paths[1][1].value
  /\ ret.paths[3][1].value = ret.paths[1][1].value

C17_Share(Test(_)) ==
  Frac(Cardinality({i \in 1..Len(ret.paths) : Test(C14_FinalValues[i])}),
       Len(ret.paths))

C17_IsShare(x) == IsNumber(x) /\ RGe(x, RZero) /\ RLe(x, RInt(1))

C18_Plan == getRebalanceRecommendation(Valuation, now)

\* C18: for a portfolio that is valued, worth 0 or holding a position
\* priced 0 included, every allocation, every recommended number of
\* shares and every path's annualized growth rate is a number, and the
\* growth rates of a portfolio worth 0 are 0.
C18_NoDivisionFault ==
  ~ ValuationFailed
    => /\ \A i \in 1..Len(Valuation.positions) :
            /\ IsNumber(Valuation.positions[i].actualAllocation)
            /\ Valuation.totalValue = 0
                 => Valuation.positions[i].actualAllocation = RZero
       /\ \A i \in 1..Len(C18_Plan.recommendations) :
            IsNumber(C18_Plan.recommendations[i].shares)
       /\ Simulated
            => /\ \A i \in 1..Len(ret.cagrs) :
                    /\ IsNumber(ret.cagrs[i])
                    /\ ret.initialValue = 0 => ret.cagrs[i] = RZero
               /\ IsNumber(ret.cagrStats.mean)
               /\ IsNumber(ret.cagrStats.median)
               /\ IsNumber(ret.cagrStats.min)
               /\ IsNumber(ret.cagrStats.max)

(***************************************************************************)
(* Properties of the drift history and of the trend read from it.          *)
(***************************************************************************)
\* The snapshots of the history that lie inside the lookback window of a
\* trend query made now and that hold the symbol.
C19_InWindow(symbol, days) ==
  { i \in 1..Len(historyFile) :
      /\ historyFile[i].timestamp > now - days * MinutesPerDay
      /\ \E k \in 1..Len(historyFile[i].positions) :
           historyFile[i].positions[k].symbol = symbol }

C19_DriftAt(i, symbol) ==
  LET positions == historyFile[i].positions
  IN  positions[CHOOSE k \in 1..Len(positions) :
                  positions[k].symbol = symbol].drift

\* i is recorded no later than j: by timestamp, by position among equals.
C19_NoLater(i, j) ==
  \/ historyFile[i].timestamp < historyFile[j].timestamp
  \/ historyFile[i].timestamp = historyFile[j].timestamp /\ i <= j

C19_Answers(answer, symbol, days) ==
  LET window == C19_InWindow(symbol, days)
  IN  IF Cardinality(window) < 2
        THEN answer.trend = "insufficient_data"
        ELSE LET earliest == CHOOSE i \in window :
                               \A j \in window : C19_NoLater(i, j)
                 latest   == CHOOSE i \in window :
                               \A j \in window : C19_NoLater(j, i)
                 change   == RSub(C19_DriftAt(latest, symbol),
                                  C19_DriftAt(earliest, symbol))
             IN  /\ answer.trend \in {"stable", "increasing", "decreasing"}
                 /\ answer.change = change
                 /\ RLt(RAbs(change), Frac(1, 100)) => answer.trend = "stable"
                 /\ RGe(change, Frac(1, 100)) => answer.trend = "increasing"
                 /\ RLe(change, Frac(0 - 1, 100)) => answer.trend = "decreasing"

\* C19: getDriftTrend(symbol, days) reports insufficient data when fewer
\* than two snapshots inside the lookback window hold the symbol; otherwise,
\* with change the latest drift of the window less its earliest, it reports
\* stable when |change| < 0.01, increasing when change >= 0.01 and
\* decreasing when change <= -0.01.
C19_TrendAsStated ==
  [][\A symbol \in Symbols, days \in TrendDays :
       GetDriftTrend(symbol, days) => C19_Answers(ret', symbol, days)]_vars

\* A trend over three snapshots whose net change is exactly 0.01 and is
\* reported as increasing.
C19_Witness ==
  /\ ret.op = "getDriftTrend"
  /\ ret.trend = "increasing"
  /\ ret.change = Frac(1, 100)
  /\ ret.dataPoints = 3
  /\ Len(historyFile) = 3
  /\ now > 0

\* A step in which a drift check returns without an error.
C20_CheckSucceeds ==
  /\ pc[1] = "awaiting"
  /\ pc'[1] = "idle"
  /\ ret'.op = "checkDriftAlerts"
  /\ ret'.error = NoError

C20_Fresh(h, time) == time - h.timestamp < 30 * MinutesPerDay

\* The snapshot a check at `time` records: one entry per holding of the
\* configuration, in its order.
C20_IsSnapshotOf(h, time) ==
  /\ h.timestamp = time
  /\ Len(h.positions) = Len(configFile.portfolio.holdings)
  /\ \A k \in 1..Len(h.positions) :
       h.positions[k].symbol = configFile.portfolio.holdings[k].symbol

\* C20: every successful drift check appends exactly one snapshot to the
\* drift history whether or not an alert fires; the snapshots that were
\* there are neither modified nor reordered, those that stay being the ones
\* less than 30 days old; and after the check every snapshot of the history
\* is less than 30 days old and the timestamps never decrease along it.
C20_HistoryAppendOnly ==
  [][C20_CheckSucceeds =>
       LET after == historyFile'
           n     == Len(after)
       IN  /\ n >= 1
           /\ C20_IsSnapshotOf(after[n], now)
           /\ SubSeq(after, 1, n - 1)
                = SelectSeq(historyFile, LAMBDA h : C20_Fresh(h, now))
           /\ \A i \in 1..n : C20_Fresh(after[i], now)
           /\ \A i \in 1..(n - 1) :
                after[i].timestamp <= after[i + 1].timestamp]_vars

\* The third check has raised alerts, the earlier ones raised none, and the
\* history has let go of a snapshot that turned 30 days old while keeping
\* two.
C20_Witness ==
  /\ ret.op = "checkDriftAlerts"
  /\ ret.error = NoError
  /\ ret.alerts # <<>>
  /\ nChecks = 3
  /\ pc[1] = "idle"
  /\ Len(historyFile) = 2
  /\ historyFile[2].timestamp = now
  /\ allEmitted = ret.alerts

(***************************************************************************)
(* Properties of the alert log under acknowledgement and retention.        *)
(***************************************************************************)
\* The fields of an alert that acknowledgement does not write.
C21_Body(a) ==
  [id |-> a.id, symbol |-> a.symbol, severity |-> a.severity,
   drift |-> a.drift, actualAllocation |-> a.actualAllocation,
   targetAllocation |-> a.targetAllocation, value |-> a.value,
   timestamp |-> a.timestamp]

C21_Acknowledging == nAcks' = nAcks + 1

\* What acknowledgeAlert(alertId) does to the log and returns.
C21_AcknowledgeFrame(alertId) ==
  LET known == {i \in 1..Len(alertsFile) : alertsFile[i].id = alertId}
  IN  IF known = {}
        THEN alertsFile' = alertsFile /\ ~ret'.found
        ELSE LET i == CHOOSE x \in known : \A y \in known : x <= y
             IN  /\ ret'.found
                 /\ Len(alertsFile') = Len(alertsFile)
                 /\ alertsFile'[i].acknowledged
                 /\ C21_Body(alertsFile'[i]) = C21_Body(alertsFile[i])
                 /\ \A j \in 1..Len(alertsFile) :
                      j # i => alertsFile'[j] = alertsFile[j]

\* Across any step the alerts of the log stay, in order, after at most a
\* number of the oldest have been trimmed from a log that ends up full; an
\* alert that stays keeps its body and its acknowledgement, and changes at
\* all only in an acknowledgement.
C21_LogKept ==
  \E k \in 0..Len(alertsFile) :
    /\ k > 0 => Len(alertsFile') = MaxAlerts
    /\ Len(alertsFile') >= Len(alertsFile) - k
    /\ \A i \in 1..(Len(alertsFile) - k) :
         /\ C21_Body(alertsFile'[i]) = C21_Body(alertsFile[k + i])
         /\ alertsFile[k + i].acknowledged => alertsFile'[i].acknowledged
         /\ ~C21_Acknowledging => alertsFile'[i] = alertsFile[k + i]

C21_ActiveAnswered ==
  ret'.op = "getActiveAlerts" /\ ret' # ret
    => /\ \A i \in 1..Len(ret'.alerts) : ~ret'.alerts[i].acknowledged
       /\ ret'.alerts = SelectSeq(alertsFile, LAMBDA a : a.acknowledged = FALSE)

\* C21: a logged alert changes only through acknowledgement.
\* acknowledgeAlert(id) marks the alert with that id acknowledged (the flag
\* and the time of acknowledgement) and leaves every other alert and every
\* other field as it was; an unknown id returns null and leaves the log
\* unchanged; an acknowledged alert never becomes unacknowledged again;
\* getActiveAlerts returns exactly the unacknowledged alerts of the log; and
\* no alert leaves the log except by retention trimming.
C21_ChangedOnlyByAcknowledgement ==
  [][/\ \A alertId \in OperatorIds :
          Acknowledge(alertId, MaxAcks) => C21_AcknowledgeFrame(alertId)
     /\ C21_LogKept
     /\ C21_ActiveAnswered]_vars

\* An alert acknowledged earlier is still in the full log after checks
\* have trimmed older alerts away, and the active alerts read now are all
\* the others.
C21_Witness ==
  /\ ret.op = "getActiveAlerts"
  /\ Len(alertsFile) = MaxAlerts
  /\ Len(allEmitted) > MaxAlerts + 2
  /\ Len(ret.alerts) = MaxAlerts - 1
  /\ \E i \in 1..(MaxAlerts - 2) :
       /\ alertsFile[i].acknowledged
       /\ alertsFile[i].acknowledgedAt < now

\* A step in which the polling loop's check returns without an error.
C22_CheckReturns ==
  /\ pc[1] = "awaiting"
  /\ pc'[1] = "idle"
  /\ ret'.op = "checkDriftAlerts"
  /\ ret'.error = NoError

C22_Config == loadAlertConfig(alertConfigFile)

C22_SeverityOf(position) ==
  IF RGe(RAbs(position.drift), C22_Config.thresholds.critical) THEN "critical"
  ELSE IF RGe(RAbs(position.drift), C22_Config.thresholds.warning) THEN "warning"
  ELSE "none"

\* The alerts of the log, as the check finds it, for a symbol; for a symbol
\* and a severity.
C22_Of(symbol) ==
  {i \in 1..Len(alertsFile) : alertsFile[i].symbol = symbol}

C22_OfSeverity(symbol, severity) ==
  {i \in C22_Of(symbol) : alertsFile[i].severity = severity}

C22_Latest(indices) ==
  CHOOSE i \in indices :
    \A j \in indices : alertsFile[j].timestamp <= alertsFile[i].timestamp /\ j <= i

C22_Emits(position) ==
  \E k \in 1..Len(ret'.alerts) :
    /\ ret'.alerts[k].symbol = position.symbol
    /\ ret'.alerts[k].severity = C22_SeverityOf(position)
    /\ ret'.alerts[k].timestamp = now

\* The position is alerted at the severity of the most recent logged alert
\* of its symbol and severity, which is at least a cooldown old.
C22_StillDrifted(position) ==
  LET same == C22_OfSeverity(position.symbol, C22_SeverityOf(position))
  IN  /\ C22_SeverityOf(position) # "none"
      /\ same # {}
      /\ now - alertsFile[C22_Latest(same)].timestamp >= C22_Config.cooldown

\* The position is alerted at another severity than the most recent logged
\* alert of its symbol, which is less than a cooldown old.
C22_SeverityChanged(position) ==
  LET logged == C22_Of(position.symbol)
  IN  /\ C22_SeverityOf(position) # "none"
      /\ logged # {}
      /\ alertsFile[C22_Latest(logged)].severity # C22_SeverityOf(position)
      /\ now - alertsFile[C22_Latest(logged)].timestamp < C22_Config.cooldown

C22_NoRecentOfSeverity(position) ==
  \A i \in C22_OfSeverity(position.symbol, C22_SeverityOf(position)) :
    now - alertsFile[i].timestamp >= C22_Config.cooldown

\* C22 as stated: a check made at least a cooldown after the most recent
\* logged alert of a symbol and severity emits a new alert for a position
\* still at that severity, and every change of severity inside the cooldown
\* window, from warning to critical or back, emits a new alert.
C22_AsStated ==
  [][C22_CheckReturns =>
       \A n \in 1..Len(ret'.positions) :
         /\ C22_StillDrifted(ret'.positions[n]) => C22_Emits(ret'.positions[n])
         /\ C22_SeverityChanged(ret'.positions[n]) => C22_Emits(ret'.positions[n])]_vars

\* C22, amended: a check made at least a cooldown after the most recent
\* logged alert of a symbol and severity emits a new alert for a position
\* still at that severity, and a change of severity inside the cooldown
\* window emits a new alert unless an alert of the new severity was itself
\* logged for the symbol less than a cooldown ago.
C22_CooldownExpires ==
  [][C22_CheckReturns =>
       \A n \in 1..Len(ret'.positions) :
         /\ C22_StillDrifted(ret'.positions[n]) => C22_Emits(ret'.positions[n])
         /\ C22_SeverityChanged(ret'.positions[n])
              /\ C22_NoRecentOfSeverity(ret'.positions[n])
              => C22_Emits(ret'.positions[n])]_vars

\* BTC was alerted as a warning, as critical inside the warning's cooldown,
\* and as a warning again once the first warning was exactly a cooldown old.
C22_Witness ==
  /\ Len(alertsFile) >= 3
  /\ \E i, j, k \in 1..Len(alertsFile) :
       /\ i < j /\ j < k
       /\ alertsFile[i].symbol = "BTC" /\ alertsFile[i].severity = "warning"
       /\ alertsFile[j].symbol = "BTC" /\ alertsFile[j].severity = "critical"
       /\ alertsFile[k].symbol = "BTC" /\ alertsFile[k].severity = "warning"
       /\ alertsFile[j].timestamp - alertsFile[i].timestamp < DefaultCooldown
       /\ alertsFile[k].timestamp - alertsFile[i].timestamp = DefaultCooldown

(***************************************************************************)
(* Properties of mNAV and of the daemon.                                   *)
(***************************************************************************)
\* (mstrPrice * sharesOutstanding) / (btcPrice * btcHoldings) at the prices
\* and configuration of the state, the two quotients taken first.
C23_Quotient ==
  LET mstrData == loadConfig(configFile).mstrData
  IN  RMul(Frac(prices["MSTR"], prices["BTC"]),
           Frac(mstrData.sharesOutstanding, mstrData.btcHoldings))

C23_Answered == ret'.op = "calculateMnav" /\ ret' # ret

\* C23: calculateMnav returns an error result when the BTC or the MSTR
\* price is unavailable; otherwise its mnav is (mstrPrice *
\* sharesOutstanding) / (btcPrice * btcHoldings), reported to two decimals,
\* and its status is OVERVALUED when mnav > mnavHigh, UNDERVALUED when mnav
\* < mnavLow and NORMAL otherwise, either threshold itself being NORMAL.
C23_MnavAndStatus ==
  [][C23_Answered =>
       LET result == ret'.result
           thresholds == loadConfig(configFile).thresholds
       IN  IF prices["BTC"] = null \/ prices["MSTR"] = null
             THEN result.error # NoError
             ELSE /\ result.error = NoError
                  /\ RLe(RAbs(RSub(result.mnav, C23_Quotient)), Frac(1, 200))
                  /\ result.status =
                       IF RGt(C23_Quotient, thresholds.mnavHigh) THEN "OVERVALUED"
                       ELSE IF RLt(C23_Quotient, thresholds.mnavLow) THEN "UNDERVALUED"
                       ELSE "NORMAL"
                  /\ C23_Quotient \in {thresholds.mnavHigh, thresholds.mnavLow}
                       => result.status = "NORMAL"]_vars

\* calculateMnav has answered NORMAL for a ratio of exactly the default
\* mnavHigh, 2.5.
C23_Witness ==
  /\ ret.op = "calculateMnav"
  /\ ret.result.error = NoError
  /\ ret.result.btcPrice = 160000
  /\ ret.result.mstrPrice = 1000
  /\ ret.result.mnav = DEFAULT_CONFIG.thresholds.mnavHigh
  /\ ret.result.status = "NORMAL"
  /\ "thresholds" \notin DOMAIN configFile

\* The daemon's check has passed its mNAV part: calculateMnav answered
\* without an error.
C29_MnavChecked == dpc = "idle" /\ dpc' = "portfolio"

C29_Sent(what) ==
  \E k \in (Len(sent) + 1)..Len(sent') :
    sent'[k].kind = "mnav" /\ sent'[k].what = what

\* C29: in a daemon check the mNAV notification agrees with the computed
\* status: an overvalued alert is sent exactly when calculateMnav reports
\* OVERVALUED, an undervalued alert exactly when it reports UNDERVALUED,
\* and no mNAV alert when the status is NORMAL.
C29_NotificationAgrees ==
  [][C29_MnavChecked =>
       /\ C29_Sent("overvalued") <=> dframe'.status = "OVERVALUED"
       /\ C29_Sent("undervalued") <=> dframe'.status = "UNDERVALUED"
       /\ dframe'.status = "NORMAL"
            => ~C29_Sent("overvalued") /\ ~C29_Sent("undervalued")]_vars

\* The calendar date of the clock, as days since its origin.
C24_Today == now \div (24 * 60)

C24_Dated(date) ==
  {i \in 1..Len(snapshotsFile) : snapshotsFile[i].date = date}

\* A daemon step in which mNAV or the portfolio valuation reports an error:
\* a price it needs is missing when it is asked for.
C24_CheckFails ==
  /\ prices["BTC"] = null \/ prices["MSTR"] = null
  /\ \/ dpc = "idle" /\ lastRun' = now /\ lastRun # now
     \/ dpc = "portfolio" /\ dpc' = "idle"

\* C24: the daemon's history holds at most one snapshot per calendar date,
\* in date order, and at most 365 snapshots; a save on a date that has a
\* snapshot replaces it in place, any other save appends today's snapshot
\* and keeps the most recent 365; and a daemon check in which mNAV or the
\* portfolio valuation reports an error saves no snapshot.
C24_OnePerDate ==
  [][/\ Len(snapshotsFile') <= 365
     /\ \A i \in 1..(Len(snapshotsFile') - 1) :
          snapshotsFile'[i].date < snapshotsFile'[i + 1].date
     /\ snapshotsFile' # snapshotsFile =>
          LET n == Len(snapshotsFile)
              last == snapshotsFile'[Len(snapshotsFile')]
          IN  /\ last.date = C24_Today
              /\ last.timestamp = now
              /\ IF C24_Dated(C24_Today) # {}
                   THEN /\ Len(snapshotsFile') = n
                        /\ \A i \in 1..n :
                             i \notin C24_Dated(C24_Today)
                               => snapshotsFile'[i] = snapshotsFile[i]
                   ELSE \E k \in {0, 1} :
                          /\ k = 1 <=> n = 365
                          /\ Len(snapshotsFile') = n + 1 - k
                          /\ \A i \in 1..(n - k) :
                               snapshotsFile'[i] = snapshotsFile[i + k]
     /\ C24_CheckFails => snapshotsFile' = snapshotsFile]_vars

\* The history is full, its oldest snapshot has been dropped for today's,
\* yesterday's snapshot is the one of the second save of that day, and the
\* checks of an earlier day failed on a missing price and left no
\* snapshot of that date.
C24_Witness ==
  /\ Len(snapshotsFile) = MaxSnapshots
  /\ snapshotsFile[1].date > 0
  /\ snapshotsFile[MaxSnapshots].date = DateOf(now)
  /\ snapshotsFile[MaxSnapshots].timestamp = now
  /\ snapshotsFile[MaxSnapshots - 1].date = DateOf(now) - 1
  /\ snapshotsFile[MaxSnapshots - 1].timestamp % MinutesPerDay # 0
  /\ dpc = "idle"
  /\ \E d \in 1..(DateOf(now) - 1) :
       \A i \in 1..MaxSnapshots : snapshotsFile[i].date # d

(***************************************************************************)
(* Properties of the alerts of one check and of their ids.                 *)
(***************************************************************************)
C25_SamePair(a, b) == a.symbol = b.symbol /\ a.severity = b.severity

\* C25: a single checkDriftAlerts call emits at most one alert per symbol
\* and severity, also when the holdings list a symbol more than once, so
\* the log never holds two alerts of one symbol and severity with one
\* timestamp.
C25_OneAlertPerPair ==
  [][/\ ret'.op = "checkDriftAlerts" /\ ret' # ret =>
          \A k, l \in 1..Len(ret'.alerts) :
            k # l => ~C25_SamePair(ret'.alerts[k], ret'.alerts[l])
     /\ \A i, j \in 1..Len(alertsFile') :
          i # j /\ C25_SamePair(alertsFile'[i], alertsFile'[j])
            => alertsFile'[i].timestamp # alertsFile'[j].timestamp]_vars

\* C27: alert ids are unique within the alert log after any sequence of
\* checks, so acknowledgeAlert(id) acknowledges exactly the one alert the
\* caller meant and leaves no alert with that id still active.
C27_IdsUnique ==
  [][/\ \A i, j \in 1..Len(alertsFile') :
          i # j => alertsFile'[i].id # alertsFile'[j].id
     /\ ret'.op = "acknowledgeAlert" /\ nAcks' = nAcks + 1 /\ ret'.found =>
          \A i \in 1..Len(alertsFile') :
            alertsFile'[i].id = ret'.alertId => alertsFile'[i].acknowledged]_vars

\* C26: retention trimming never defeats cooldown: over any sequence of
\* checks, any two alerts emitted for one symbol and one severity are at
\* least a cooldown apart, also when trimming to the last 100 has removed
\* older alerts from the log in between.
C26_CooldownSurvivesTrimming ==
  \A i, j \in 1..Len(allEmitted) :
    /\ i < j
    /\ allEmitted[i].symbol = allEmitted[j].symbol
    /\ allEmitted[i].severity = allEmitted[j].severity
    => allEmitted[j].timestamp - allEmitted[i].timestamp
         >= loadAlertConfig(alertConfigFile).cooldown

(***************************************************************************)
(* Properties of the configuration loaders.                                *)
(***************************************************************************)
\* C28: whatever subset of fields a configuration file supplies, the loaded
\* configuration has a value for every recognised option: the warning and
\* critical thresholds and the cooldown in what loadAlertConfig returns,
\* and mnavHigh, mnavLow, driftTrigger and rebalanceTrigger in what
\* getThresholds returns of what loadConfig returns.
C28_EveryOptionDefined ==
  /\ ret.op = "loadAlertConfig" =>
        /\ {"thresholds", "cooldown"} \subseteq DOMAIN ret.config
        /\ {"warning", "critical"} \subseteq DOMAIN ret.config.thresholds
  /\ ret.op = "getThresholds" =>
        {"mnavHigh", "mnavLow", "driftTrigger", "rebalanceTrigger"}
          \subseteq DOMAIN ret.thresholds

(***************************************************************************)
(* Properties of the priorities of the rebalance planner.                  *)
(***************************************************************************)
C30_Planned == ret.op = "getRebalanceRecommendation" /\ ret.error = NoError

C30_Trigger == getThresholds(loadConfig(configFile)).rebalanceTrigger

C30_Priorities ==
  { ret.recommendations[i].priority : i \in 1..Len(ret.recommendations) }

\* C30: under the default rebalanceTrigger of 0.10 every recommendation of
\* getRebalanceRecommendation has priority HIGH, and a recommendation of
\* priority MEDIUM appears only under a rebalanceTrigger below 0.10.
C30_MediumOnlyBelowDefault ==
  C30_Planned =>
    /\ C30_Trigger = DEFAULT_CONFIG.thresholds.rebalanceTrigger
          => C30_Priorities \subseteq {"HIGH"}
    /\ "MEDIUM" \in C30_Priorities => RLt(C30_Trigger, Frac(10, 100))

\* A plan under a configured trigger of 0.05 that holds a MEDIUM and a HIGH
\* recommendation.
C30_Witness ==
  /\ C30_Planned
  /\ C30_Trigger = Frac(5, 100)
  /\ C30_Priorities = {"HIGH", "MEDIUM"}

=========================================================================
